---- MODULE Spec2Model ----
(***************************************************************************)
(* Verification model of the sqlparser slice: the CREATE TABLE builder     *)
(* (ast/helpers/stmt_create_table.rs), the DDL renderers (ast/ddl.rs) and  *)
(* the generic tokenizer (generic_tokenizer.rs).                           *)
(*                                                                         *)
(* Text is modelled by TLA+ strings; Option<T> by a sequence of length at  *)
(* most one; Vec<T> by a sequence.                                         *)
(***************************************************************************)
EXTENDS Integers, Sequences, FiniteSets, TLC

VARIABLES
    builder,    \* the CreateTableBuilder being staged
    stmt,       \* Option<Statement>: the statement handed to try_from / to_string
    result,     \* Option<Result<CreateTableBuilder, ParserError>> of the last try_from
    sql,        \* Option<String>: the last Statement::to_string()
    pc,         \* position of the builder client: "setting", "built", "converted"
    node,       \* Option<AST node>: the node last handed to a Display impl
    out,        \* outcome of that fmt call: [panicked, text]
    input,      \* the characters of the source handed to the tokenizer
    pos,        \* number of characters already taken from the Peekable<Chars>
    ret,        \* Option<outcome> of the last next_token call
    spans,      \* the tokens returned so far, each with the offsets its call took
    calls,      \* how many next_token calls returned a token or an error
    source,     \* the SQL text handed to the parser
    expected,   \* Option<Select>: the statement a test expects of source
    parsed,     \* Option<Result<Statement, ParserError>> of parsing source
    serialized  \* Option<String>: to_string() of the parsed statement

vars == <<builder, stmt, result, sql, pc, node, out, input, pos, ret, spans, calls,
          source, expected, parsed, serialized>>
builderVars == <<builder, stmt, result, sql, pc>>
renderVars == <<node, out>>
tokenizerVars == <<input, pos, ret, spans, calls>>
parserVars == <<source, expected, parsed, serialized>>

----------------------------------------------------------------------------
(* Bounds.                                                                 *)

\* at most this many fields other than columns/query/like/clone differ from new()
MaxOther == 1
\* longest tokenizer input, in characters
MaxLen == 3
\* most accessors in a JSON path handed to the parser
MaxPath == 4

----------------------------------------------------------------------------
(* Option, Result and text helpers.                                        *)

None == <<>>
Some(x) == <<x>>
is_some(o) == Len(o) > 0
unwrap(o) == o[1]

Ok(x) == [ok |-> TRUE, val |-> x]
Err(e) == [ok |-> FALSE, err |-> e]
ParserError(msg) == [variant |-> "ParserError", msg |-> msg]

RECURSIVE Join(_, _)
Join(strs, sep) ==
    IF Len(strs) = 0 THEN ""
    ELSE IF Len(strs) = 1 THEN strs[1]
    ELSE strs[1] \o sep \o Join(Tail(strs), sep)

\* display_separated(slice, sep), over the rendered elements
display_separated(rendered, sep) == Join(rendered, sep)

display_comma_separated(rendered) == display_separated(rendered, ", ")

RECURSIVE Concat(_)
\* the string that pushing the pieces cs in order builds
Concat(cs) == IF Len(cs) = 0 THEN "" ELSE cs[1] \o Concat(Tail(cs))

----------------------------------------------------------------------------
(* Identifiers, names and the opaque leaves of the AST.                    *)

Ident_new(value) == [value |-> value, quote_style |-> None]
Ident_with_quote(q, value) == [value |-> value, quote_style |-> Some(q)]

IdentDisplay(id) ==
    IF ~is_some(id.quote_style) THEN id.value
    ELSE IF unwrap(id.quote_style) = "[" THEN "[" \o id.value \o "]"
    ELSE unwrap(id.quote_style) \o id.value \o unwrap(id.quote_style)

ObjectNameDisplay(n) == Join([i \in 1..Len(n) |-> IdentDisplay(n[i])], ".")

\* an expression is kept as the text it renders to
ExprDisplay(e) == e.text

DataTypeDisplay(t) ==
    CASE t = "Int" -> "INT"
      [] t = "Text" -> "TEXT"
      [] t = "Unspecified" -> ""


----------------------------------------------------------------------------
(* Leaves rendered outside ast/ddl.rs.                                     *)

\* value::escape_single_quote_string: every ' is written twice
escape_single_quote_string(s) ==
    Concat([i \in 1..Len(s) |-> IF SubSeq(s, i, i) = "'" THEN "''" ELSE SubSeq(s, i, i)])

\* Token, Keyword ({:?}), SqlOption, Tag, SequenceOptions, IndexColumn,
\* CommentDef, MySQLColumnPosition, ProjectionSelect and ValueWithSpan values
\* are kept as the text they render to
OpaqueDisplay(x) == x.text

\* the outcome of one fmt call: what reached the sink, and whether it panicked
Returned(text) == [panicked |-> FALSE, text |-> text]
Panicked(text) == [panicked |-> TRUE, text |-> text]

----------------------------------------------------------------------------
(* Renderers of ast/ddl.rs.                                                *)

\* fn display_constraint_name
display_constraint_name(name) ==
    IF is_some(name) THEN "CONSTRAINT " \o IdentDisplay(unwrap(name)) \o " " ELSE ""

\* fn display_option(prefix, postfix, option), over the rendered inner value
display_option(prefix, postfix, rendered) ==
    IF is_some(rendered) THEN prefix \o unwrap(rendered) \o postfix ELSE ""

\* fn display_option_spaced
display_option_spaced(rendered) == display_option(" ", "", rendered)

\* impl Display for DropBehavior
DropBehavior_fmt(self) ==
    CASE self = "Restrict" -> "RESTRICT"
      [] self = "Cascade" -> "CASCADE"

\* impl Display for ReferentialAction
ReferentialAction_fmt(self) ==
    CASE self = "Restrict" -> "RESTRICT"
      [] self = "Cascade" -> "CASCADE"
      [] self = "SetNull" -> "SET NULL"
      [] self = "NoAction" -> "NO ACTION"
      [] self = "SetDefault" -> "SET DEFAULT"

\* ConstraintCharacteristics::deferrable_text
deferrable_text(self) ==
    IF is_some(self.deferrable)
    THEN Some(IF unwrap(self.deferrable) THEN "DEFERRABLE" ELSE "NOT DEFERRABLE")
    ELSE None

\* ConstraintCharacteristics::initially_immediate_text
initially_immediate_text(self) ==
    IF is_some(self.initially)
    THEN Some(IF unwrap(self.initially) = "Immediate" THEN "INITIALLY IMMEDIATE"
              ELSE "INITIALLY DEFERRED")
    ELSE None

\* ConstraintCharacteristics::enforced_text
enforced_text(self) ==
    IF is_some(self.enforced)
    THEN Some(IF unwrap(self.enforced) THEN "ENFORCED" ELSE "NOT ENFORCED")
    ELSE None

\* the settings written with enforced ahead of initially
ConstraintCharacteristics_fmt_enforced_first(self) ==
    Join(deferrable_text(self) \o enforced_text(self) \o initially_immediate_text(self), " ")

\* impl Display for ConstraintCharacteristics
ConstraintCharacteristics_fmt(self) ==
    LET deferrable == deferrable_text(self)
        initially_immediate == initially_immediate_text(self)
        enforced == enforced_text(self)
        d == is_some(deferrable)
        i == is_some(initially_immediate)
        e == is_some(enforced)
    IN  CASE ~d /\ ~i /\ ~e -> ""
          [] ~d /\ ~i /\ e -> unwrap(enforced)
          [] ~d /\ i /\ ~e -> unwrap(initially_immediate)
          [] ~d /\ i /\ e -> unwrap(initially_immediate) \o " " \o unwrap(enforced)
          [] d /\ ~i /\ ~e -> unwrap(deferrable)
          [] d /\ ~i /\ e -> unwrap(deferrable) \o " " \o unwrap(enforced)
          [] d /\ i /\ ~e -> unwrap(deferrable) \o " " \o unwrap(initially_immediate)
          [] d /\ i /\ e -> unwrap(deferrable) \o " " \o unwrap(initially_immediate)
                            \o " " \o unwrap(enforced)

\* the space written ahead of every value, KeyOrIndexDisplay::None included
KeyOrIndexDisplay_fmt_always_spaced(self, right_align) ==
    (IF right_align THEN " " ELSE "")
    \o (CASE self = "None" -> ""
          [] self = "Key" -> "KEY"
          [] self = "Index" -> "INDEX")

\* impl Display for KeyOrIndexDisplay; right_align is f.align() == Some(Right)
KeyOrIndexDisplay_fmt(self, right_align) ==
    LET left_space == right_align
    IN  (IF left_space /\ self # "None" THEN " " ELSE "")
        \o (CASE self = "None" -> ""
              [] self = "Key" -> "KEY"
              [] self = "Index" -> "INDEX")

\* impl Display for IndexType
IndexType_fmt(self) ==
    CASE self.variant = "BTree" -> "BTREE"
      [] self.variant = "Hash" -> "HASH"
      [] self.variant = "GIN" -> "GIN"
      [] self.variant = "GiST" -> "GIST"
      [] self.variant = "SPGiST" -> "SPGIST"
      [] self.variant = "BRIN" -> "BRIN"
      [] self.variant = "Bloom" -> "BLOOM"
      [] self.variant = "Custom" -> IdentDisplay(self.name)

\* impl Display for IndexOption
IndexOption_fmt(self) ==
    CASE self.variant = "Using" -> "USING " \o IndexType_fmt(self.index_type)
      [] self.variant = "Comment" -> "COMMENT '" \o self.s \o "'"

\* the {} of a format string, by the type of the value it is given
Display(type, x) ==
    CASE type = "Ident" -> IdentDisplay(x)
      [] type = "Opaque" -> OpaqueDisplay(x)
      [] type = "IndexType" -> IndexType_fmt(x)
      [] type = "IndexOption" -> IndexOption_fmt(x)
      [] type = "ConstraintCharacteristics" -> ConstraintCharacteristics_fmt(x)

\* the elements of a slice, and the inner value of an option, rendered
Each(type, slice) == [i \in 1..Len(slice) |-> Display(type, slice[i])]
Opt(type, option) == IF is_some(option) THEN Some(Display(type, unwrap(option))) ELSE None

\* impl Display for NullsDistinctOption
NullsDistinctOption_fmt(self) ==
    CASE self = "None" -> ""
      [] self = "Distinct" -> " NULLS DISTINCT"
      [] self = "NotDistinct" -> " NULLS NOT DISTINCT"

\* impl Display for TableConstraint
TableConstraint_fmt(self) ==
    CASE self.variant = "Unique" ->
            display_constraint_name(self.name)
            \o "UNIQUE"
            \o NullsDistinctOption_fmt(self.nulls_distinct)
            \o KeyOrIndexDisplay_fmt(self.index_type_display, TRUE)
            \o display_option_spaced(Opt("Ident", self.index_name))
            \o display_option(" USING ", "", Opt("IndexType", self.index_type))
            \o " (" \o display_comma_separated(Each("Opaque", self.columns)) \o ")"
            \o (IF Len(self.index_options) # 0
                THEN " " \o display_separated(Each("IndexOption", self.index_options), " ")
                ELSE "")
            \o display_option_spaced(Opt("ConstraintCharacteristics", self.characteristics))
      [] self.variant = "PrimaryKey" ->
            display_constraint_name(self.name)
            \o "PRIMARY KEY"
            \o display_option_spaced(Opt("Ident", self.index_name))
            \o display_option(" USING ", "", Opt("IndexType", self.index_type))
            \o " (" \o display_comma_separated(Each("Opaque", self.columns)) \o ")"
            \o (IF Len(self.index_options) # 0
                THEN " " \o display_separated(Each("IndexOption", self.index_options), " ")
                ELSE "")
            \o display_option_spaced(Opt("ConstraintCharacteristics", self.characteristics))
      [] self.variant = "ForeignKey" ->
            display_constraint_name(self.name)
            \o "FOREIGN KEY"
            \o display_option_spaced(Opt("Ident", self.index_name))
            \o " (" \o display_comma_separated(Each("Ident", self.columns)) \o ")"
            \o " REFERENCES " \o ObjectNameDisplay(self.foreign_table)
            \o (IF Len(self.referred_columns) # 0
                THEN "(" \o display_comma_separated(Each("Ident", self.referred_columns)) \o ")"
                ELSE "")
            \o (IF is_some(self.on_delete)
                THEN " ON DELETE " \o ReferentialAction_fmt(unwrap(self.on_delete)) ELSE "")
            \o (IF is_some(self.on_update)
                THEN " ON UPDATE " \o ReferentialAction_fmt(unwrap(self.on_update)) ELSE "")
            \o (IF is_some(self.characteristics)
                THEN " " \o ConstraintCharacteristics_fmt(unwrap(self.characteristics))
                ELSE "")
      [] self.variant = "Check" ->
            display_constraint_name(self.name)
            \o "CHECK (" \o ExprDisplay(self.expr) \o ")"
            \o (IF is_some(self.enforced)
                THEN " " \o (IF unwrap(self.enforced) THEN "ENFORCED" ELSE "NOT ENFORCED")
                ELSE "")
      [] self.variant = "Index" ->
            (IF self.display_as_key THEN "KEY" ELSE "INDEX")
            \o (IF is_some(self.name) THEN " " \o IdentDisplay(unwrap(self.name)) ELSE "")
            \o (IF is_some(self.index_type)
                THEN " USING " \o IndexType_fmt(unwrap(self.index_type)) ELSE "")
            \o " (" \o display_comma_separated(Each("Opaque", self.columns)) \o ")"
      [] self.variant = "FulltextOrSpatial" ->
            (IF self.fulltext THEN "FULLTEXT" ELSE "SPATIAL")
            \o KeyOrIndexDisplay_fmt(self.index_type_display, TRUE)
            \o (IF is_some(self.opt_index_name)
                THEN " " \o IdentDisplay(unwrap(self.opt_index_name)) ELSE "")
            \o " (" \o display_comma_separated(Each("Opaque", self.columns)) \o ")"

\* impl Display for IdentityPropertyFormatKind
IdentityPropertyFormatKind_fmt(self) ==
    CASE self.variant = "FunctionCall" ->
            "(" \o ExprDisplay(self.parameters.seed) \o ", "
            \o ExprDisplay(self.parameters.increment) \o ")"
      [] self.variant = "StartAndIncrement" ->
            " START " \o ExprDisplay(self.parameters.seed)
            \o " INCREMENT " \o ExprDisplay(self.parameters.increment)

\* impl Display for IdentityPropertyOrder
IdentityPropertyOrder_fmt(self) ==
    CASE self = "Order" -> " ORDER"
      [] self = "NoOrder" -> " NOORDER"

\* impl Display for IdentityPropertyKind
IdentityPropertyKind_fmt(self) ==
    LET command == IF self.variant = "Identity" THEN "IDENTITY" ELSE "AUTOINCREMENT"
        property == self.property
    IN  command
        \o (IF is_some(property.parameters)
            THEN IdentityPropertyFormatKind_fmt(unwrap(property.parameters)) ELSE "")
        \o (IF is_some(property.order)
            THEN IdentityPropertyOrder_fmt(unwrap(property.order)) ELSE "")

\* impl Display for ColumnPolicy
ColumnPolicy_fmt(self) ==
    LET command == IF self.variant = "MaskingPolicy" THEN "MASKING POLICY"
                   ELSE "PROJECTION POLICY"
        property == self.property
    IN  (IF property.with THEN "WITH " ELSE "")
        \o command \o " " \o ObjectNameDisplay(property.policy_name)
        \o (IF is_some(property.using_columns)
            THEN " USING ("
                 \o display_comma_separated(Each("Ident", unwrap(property.using_columns)))
                 \o ")"
            ELSE "")

\* impl Display for TagsColumnOption
TagsColumnOption_fmt(self) ==
    (IF self.with THEN "WITH " ELSE "")
    \o "TAG (" \o display_comma_separated(Each("Opaque", self.tags)) \o ")"

\* impl Display for ColumnOption
ColumnOption_fmt(self) ==
    CASE self.variant = "Null" -> Returned("NULL")
      [] self.variant = "NotNull" -> Returned("NOT NULL")
      [] self.variant = "Default" -> Returned("DEFAULT " \o ExprDisplay(self.expr))
      [] self.variant = "Materialized" ->
            Returned("MATERIALIZED " \o ExprDisplay(self.expr))
      [] self.variant = "Ephemeral" ->
            IF is_some(self.expr)
            THEN Returned("EPHEMERAL " \o ExprDisplay(unwrap(self.expr)))
            ELSE Returned("EPHEMERAL")
      [] self.variant = "Alias" -> Returned("ALIAS " \o ExprDisplay(self.expr))
      [] self.variant = "Unique" ->
            Returned((IF self.is_primary THEN "PRIMARY KEY" ELSE "UNIQUE")
                     \o (IF is_some(self.characteristics)
                         THEN " " \o ConstraintCharacteristics_fmt(unwrap(self.characteristics))
                         ELSE ""))
      [] self.variant = "ForeignKey" ->
            Returned("REFERENCES " \o ObjectNameDisplay(self.foreign_table)
                     \o (IF Len(self.referred_columns) # 0
                         THEN " (" \o display_comma_separated(Each("Ident", self.referred_columns))
                              \o ")"
                         ELSE "")
                     \o (IF is_some(self.on_delete)
                         THEN " ON DELETE " \o ReferentialAction_fmt(unwrap(self.on_delete))
                         ELSE "")
                     \o (IF is_some(self.on_update)
                         THEN " ON UPDATE " \o ReferentialAction_fmt(unwrap(self.on_update))
                         ELSE "")
                     \o (IF is_some(self.characteristics)
                         THEN " " \o ConstraintCharacteristics_fmt(unwrap(self.characteristics))
                         ELSE ""))
      [] self.variant = "Check" -> Returned("CHECK (" \o ExprDisplay(self.expr) \o ")")
      [] self.variant = "DialectSpecific" ->
            Returned(display_separated(Each("Opaque", self.val), " "))
      [] self.variant = "CharacterSet" ->
            Returned("CHARACTER SET " \o ObjectNameDisplay(self.n))
      [] self.variant = "Collation" -> Returned("COLLATE " \o ObjectNameDisplay(self.n))
      [] self.variant = "Comment" ->
            Returned("COMMENT '" \o escape_single_quote_string(self.v) \o "'")
      [] self.variant = "OnUpdate" -> Returned("ON UPDATE " \o ExprDisplay(self.expr))
      [] self.variant = "Generated" ->
            IF is_some(self.generation_expr)
            THEN LET modifier ==
                        IF ~is_some(self.generation_expr_mode) THEN ""
                        ELSE IF unwrap(self.generation_expr_mode) = "Virtual" THEN " VIRTUAL"
                        ELSE " STORED"
                     expr == ExprDisplay(unwrap(self.generation_expr))
                 IN  IF self.generated_keyword
                     THEN Returned("GENERATED ALWAYS AS (" \o expr \o ")" \o modifier)
                     ELSE Returned("AS (" \o expr \o ")" \o modifier)
            ELSE IF self.generated_as = "ExpStored"
            THEN Panicked("")    \* unreachable!() before anything is written
            ELSE LET when == IF self.generated_as = "Always" THEN "ALWAYS" ELSE "BY DEFAULT"
                     so == IF is_some(self.sequence_options)
                           THEN unwrap(self.sequence_options) ELSE <<>>
                 IN  Returned("GENERATED " \o when \o " AS IDENTITY"
                              \o (IF is_some(self.sequence_options)
                                  THEN (IF Len(so) # 0 THEN " (" ELSE "")
                                       \o Concat(Each("Opaque", so))
                                       \o (IF Len(so) # 0 THEN " )" ELSE "")
                                  ELSE ""))
      [] self.variant = "Options" ->
            Returned("OPTIONS(" \o display_comma_separated(Each("Opaque", self.options)) \o ")")
      [] self.variant = "Identity" -> Returned(IdentityPropertyKind_fmt(self.parameters))
      [] self.variant = "OnConflict" ->
            Returned("ON CONFLICT " \o OpaqueDisplay(self.keyword))
      [] self.variant = "Policy" -> Returned(ColumnPolicy_fmt(self.parameters))
      [] self.variant = "Tags" -> Returned(TagsColumnOption_fmt(self.tags))
      [] self.variant = "Srid" -> Returned("SRID " \o ExprDisplay(self.srid))

\* impl Display for ColumnOptionDef
ColumnOptionDef_fmt(self) ==
    LET o == ColumnOption_fmt(self.option)
    IN  [panicked |-> o.panicked, text |-> display_constraint_name(self.name) \o o.text]

RECURSIVE ColumnDef_options(_, _)
\* the loop over self.options of ColumnDef's fmt, from what is already written
ColumnDef_options(written, options) ==
    IF Len(options) = 0 THEN Returned(written)
    ELSE LET o == ColumnOptionDef_fmt(options[1])
         IN  IF o.panicked THEN Panicked(written \o " " \o o.text)
             ELSE ColumnDef_options(written \o " " \o o.text, Tail(options))

\* ColumnDef's fmt without the space between name and data type
ColumnDef_fmt_no_space(self) ==
    ColumnDef_options(
        IF self.data_type = "Unspecified" THEN IdentDisplay(self.name)
        ELSE IdentDisplay(self.name) \o DataTypeDisplay(self.data_type),
        self.options)

\* impl Display for ColumnDef
ColumnDef_fmt(self) ==
    ColumnDef_options(
        IF self.data_type = "Unspecified" THEN IdentDisplay(self.name)
        ELSE IdentDisplay(self.name) \o " " \o DataTypeDisplay(self.data_type),
        self.options)

\* ViewColumnDef's fmt with the separators of the two variants exchanged
ViewColumnDef_fmt_separators_swapped(self) ==
    LET head == IdentDisplay(self.name)
                \o (IF is_some(self.data_type)
                    THEN " " \o DataTypeDisplay(unwrap(self.data_type)) ELSE "")
    IN  IF ~is_some(self.options) THEN Returned(head)
        ELSE LET column_options == unwrap(self.options).options
                 r == [i \in 1..Len(column_options) |-> ColumnOption_fmt(column_options[i])]
                 texts == [i \in 1..Len(r) |-> r[i].text]
             IN  IF unwrap(self.options).variant = "CommaSeparated"
                 THEN Returned(head \o " " \o display_separated(texts, " "))
                 ELSE Returned(head \o " " \o display_comma_separated(texts))

\* impl Display for ViewColumnDef
ViewColumnDef_fmt(self) ==
    LET head == IdentDisplay(self.name)
                \o (IF is_some(self.data_type)
                    THEN " " \o DataTypeDisplay(unwrap(self.data_type)) ELSE "")
    IN  IF ~is_some(self.options) THEN Returned(head)
        ELSE LET column_options == unwrap(self.options).options
                 r == [i \in 1..Len(column_options) |-> ColumnOption_fmt(column_options[i])]
                 texts == [i \in 1..Len(r) |-> r[i].text]
                 sep == IF unwrap(self.options).variant = "CommaSeparated" THEN ", " ELSE " "
                 bad == {i \in 1..Len(r) : r[i].panicked}
             IN  IF bad # {}
                 THEN \* what was written when the first failing option panicked
                      LET k == CHOOSE i \in bad : \A j \in bad : i <= j
                      IN  Panicked(head \o " "
                                   \o Concat([i \in 1..(k - 1) |-> texts[i] \o sep])
                                   \o texts[k])
                 ELSE IF unwrap(self.options).variant = "CommaSeparated"
                 THEN Returned(head \o " " \o display_comma_separated(texts))
                 ELSE Returned(head \o " " \o display_separated(texts, " "))

\* impl Display for ReplicaIdentity
ReplicaIdentity_fmt(self) ==
    CASE self.variant = "None" -> "NONE"
      [] self.variant = "Full" -> "FULL"
      [] self.variant = "Default" -> "DEFAULT"
      [] self.variant = "Index" -> "USING INDEX " \o IdentDisplay(self.idx)

\* impl Display for AlterColumnOperation
AlterColumnOperation_fmt(self) ==
    CASE self.variant = "SetNotNull" -> "SET NOT NULL"
      [] self.variant = "DropNotNull" -> "DROP NOT NULL"
      [] self.variant = "SetDefault" -> "SET DEFAULT " \o ExprDisplay(self.value)
      [] self.variant = "DropDefault" -> "DROP DEFAULT"
      [] self.variant = "SetDataType" ->
            (IF self.had_set THEN "SET DATA " ELSE "")
            \o "TYPE " \o DataTypeDisplay(self.data_type)
            \o (IF is_some(self.using)
                THEN " USING " \o ExprDisplay(unwrap(self.using)) ELSE "")
      [] self.variant = "AddGenerated" ->
            LET generated_as ==
                    IF self.generated_as = Some("Always") THEN " ALWAYS"
                    ELSE IF self.generated_as = Some("ByDefault") THEN " BY DEFAULT"
                    ELSE ""
            IN  "ADD GENERATED" \o generated_as \o " AS IDENTITY"
                \o (IF is_some(self.sequence_options)
                    THEN " (" \o Concat(Each("Opaque", unwrap(self.sequence_options))) \o " )"
                    ELSE "")

\* impl Display for AlterTableAlgorithm
AlterTableAlgorithm_fmt(self) ==
    CASE self = "Default" -> "DEFAULT"
      [] self = "Instant" -> "INSTANT"
      [] self = "Inplace" -> "INPLACE"
      [] self = "Copy" -> "COPY"

\* impl Display for AlterTableLock
AlterTableLock_fmt(self) ==
    CASE self = "Default" -> "DEFAULT"
      [] self = "None" -> "NONE"
      [] self = "Shared" -> "SHARED"
      [] self = "Exclusive" -> "EXCLUSIVE"

\* impl Display for Partition
Partition_fmt(self) ==
    CASE self.variant = "Identifier" -> "PARTITION ID " \o IdentDisplay(self.id)
      [] self.variant = "Expr" -> "PARTITION " \o ExprDisplay(self.expr)
      [] self.variant = "Part" -> "PART " \o ExprDisplay(self.expr)
      [] self.variant = "Partitions" ->
            "PARTITION ("
            \o display_comma_separated([i \in 1..Len(self.partitions) |->
                                           ExprDisplay(self.partitions[i])])
            \o ")"

\* AlterTableOperation's fmt with the two drop behaviours exchanged
AlterTableOperation_fmt_swapped(self) ==
    CASE self.variant = "AddPartitions" ->
            "ADD"
            \o (IF self.if_not_exists THEN " IF NOT EXISTS" ELSE "")
            \o " "
            \o display_separated([i \in 1..Len(self.new_partitions) |->
                                     Partition_fmt(self.new_partitions[i])], " ")
      [] self.variant = "AddConstraint" ->
            "ADD " \o TableConstraint_fmt(self.constraint)
            \o (IF self.not_valid THEN " NOT VALID" ELSE "")
      [] self.variant = "AddColumn" ->
            "ADD"
            \o (IF self.column_keyword THEN " COLUMN" ELSE "")
            \o (IF self.if_not_exists THEN " IF NOT EXISTS" ELSE "")
            \o " " \o ColumnDef_fmt(self.column_def).text
            \o (IF is_some(self.column_position)
                THEN " " \o OpaqueDisplay(unwrap(self.column_position)) ELSE "")
      [] self.variant = "AddProjection" ->
            "ADD PROJECTION"
            \o (IF self.if_not_exists THEN " IF NOT EXISTS" ELSE "")
            \o " " \o IdentDisplay(self.name)
            \o " (" \o OpaqueDisplay(self.select) \o ")"
      [] self.variant = "Algorithm" ->
            "ALGORITHM "
            \o (IF self.equals THEN "= " ELSE "")
            \o AlterTableAlgorithm_fmt(self.algorithm)
      [] self.variant = "DropProjection" ->
            "DROP PROJECTION"
            \o (IF self.if_exists THEN " IF EXISTS" ELSE "")
            \o " " \o IdentDisplay(self.name)
      [] self.variant = "MaterializeProjection" ->
            "MATERIALIZE PROJECTION"
            \o (IF self.if_exists THEN " IF EXISTS" ELSE "")
            \o " " \o IdentDisplay(self.name)
            \o (IF is_some(self.partition)
                THEN " IN PARTITION " \o IdentDisplay(unwrap(self.partition)) ELSE "")
      [] self.variant = "ClearProjection" ->
            "CLEAR PROJECTION"
            \o (IF self.if_exists THEN " IF EXISTS" ELSE "")
            \o " " \o IdentDisplay(self.name)
            \o (IF is_some(self.partition)
                THEN " IN PARTITION " \o IdentDisplay(unwrap(self.partition)) ELSE "")
      [] self.variant = "DropPartitions" ->
            "DROP"
            \o (IF self.if_exists THEN " IF EXISTS" ELSE "")
            \o " PARTITION ("
            \o display_comma_separated([i \in 1..Len(self.partitions) |->
                                           ExprDisplay(self.partitions[i])])
            \o ")"
      [] self.variant = "DropConstraint" ->
            "DROP CONSTRAINT "
            \o (IF self.if_exists THEN "IF EXISTS " ELSE "")
            \o IdentDisplay(self.name)
            \o (IF ~is_some(self.drop_behavior) THEN ""
                ELSE IF unwrap(self.drop_behavior) = "Restrict" THEN " CASCADE"
                ELSE " RESTRICT")
      [] self.variant = "DropColumn" ->
            "DROP "
            \o (IF self.has_column_keyword THEN "COLUMN " ELSE "")
            \o (IF self.if_exists THEN "IF EXISTS " ELSE "")
            \o display_comma_separated(Each("Ident", self.column_names))
            \o (IF ~is_some(self.drop_behavior) THEN ""
                ELSE IF unwrap(self.drop_behavior) = "Restrict" THEN " RESTRICT"
                ELSE " CASCADE")
      [] self.variant = "ChangeColumn" ->
            "CHANGE COLUMN " \o IdentDisplay(self.old_name)
            \o " " \o IdentDisplay(self.new_name)
            \o " " \o DataTypeDisplay(self.data_type)
            \o (IF Len(self.options) # 0
                THEN " " \o display_separated([i \in 1..Len(self.options) |->
                                                  ColumnOption_fmt(self.options[i]).text], " ")
                ELSE "")
            \o (IF is_some(self.column_position)
                THEN " " \o OpaqueDisplay(unwrap(self.column_position)) ELSE "")
      [] self.variant = "ModifyColumn" ->
            "MODIFY COLUMN " \o IdentDisplay(self.col_name)
            \o " " \o DataTypeDisplay(self.data_type)
            \o (IF Len(self.options) # 0
                THEN " " \o display_separated([i \in 1..Len(self.options) |->
                                                  ColumnOption_fmt(self.options[i]).text], " ")
                ELSE "")
            \o (IF is_some(self.column_position)
                THEN " " \o OpaqueDisplay(unwrap(self.column_position)) ELSE "")
      [] self.variant = "FreezePartition" ->
            "FREEZE " \o Partition_fmt(self.partition)
            \o (IF is_some(self.with_name)
                THEN " WITH NAME " \o IdentDisplay(unwrap(self.with_name)) ELSE "")
      [] self.variant = "UnfreezePartition" ->
            "UNFREEZE " \o Partition_fmt(self.partition)
            \o (IF is_some(self.with_name)
                THEN " WITH NAME " \o IdentDisplay(unwrap(self.with_name)) ELSE "")
      [] self.variant = "AutoIncrement" ->
            "AUTO_INCREMENT "
            \o (IF self.equals THEN "= " ELSE "")
            \o OpaqueDisplay(self.value)
      [] self.variant = "Lock" ->
            "LOCK "
            \o (IF self.equals THEN "= " ELSE "")
            \o AlterTableLock_fmt(self.lock)
      [] self.variant = "ReplicaIdentity" ->
            "REPLICA IDENTITY " \o ReplicaIdentity_fmt(self.identity)

\* AlterTableOperation's fmt with NOT VALID left out of ADD <constraint>
AlterTableOperation_fmt_not_valid_lost(self) ==
    CASE self.variant = "AddPartitions" ->
            "ADD"
            \o (IF self.if_not_exists THEN " IF NOT EXISTS" ELSE "")
            \o " "
            \o display_separated([i \in 1..Len(self.new_partitions) |->
                                     Partition_fmt(self.new_partitions[i])], " ")
      [] self.variant = "AddConstraint" ->
            "ADD " \o TableConstraint_fmt(self.constraint)
            \o (IF self.not_valid THEN "" ELSE "")
      [] self.variant = "AddColumn" ->
            "ADD"
            \o (IF self.column_keyword THEN " COLUMN" ELSE "")
            \o (IF self.if_not_exists THEN " IF NOT EXISTS" ELSE "")
            \o " " \o ColumnDef_fmt(self.column_def).text
            \o (IF is_some(self.column_position)
                THEN " " \o OpaqueDisplay(unwrap(self.column_position)) ELSE "")
      [] self.variant = "AddProjection" ->
            "ADD PROJECTION"
            \o (IF self.if_not_exists THEN " IF NOT EXISTS" ELSE "")
            \o " " \o IdentDisplay(self.name)
            \o " (" \o OpaqueDisplay(self.select) \o ")"
      [] self.variant = "Algorithm" ->
            "ALGORITHM "
            \o (IF self.equals THEN "= " ELSE "")
            \o AlterTableAlgorithm_fmt(self.algorithm)
      [] self.variant = "DropProjection" ->
            "DROP PROJECTION"
            \o (IF self.if_exists THEN " IF EXISTS" ELSE "")
            \o " " \o IdentDisplay(self.name)
      [] self.variant = "MaterializeProjection" ->
            "MATERIALIZE PROJECTION"
            \o (IF self.if_exists THEN " IF EXISTS" ELSE "")
            \o " " \o IdentDisplay(self.name)
            \o (IF is_some(self.partition)
                THEN " IN PARTITION " \o IdentDisplay(unwrap(self.partition)) ELSE "")
      [] self.variant = "ClearProjection" ->
            "CLEAR PROJECTION"
            \o (IF self.if_exists THEN " IF EXISTS" ELSE "")
            \o " " \o IdentDisplay(self.name)
            \o (IF is_some(self.partition)
                THEN " IN PARTITION " \o IdentDisplay(unwrap(self.partition)) ELSE "")
      [] self.variant = "DropPartitions" ->
            "DROP"
            \o (IF self.if_exists THEN " IF EXISTS" ELSE "")
            \o " PARTITION ("
            \o display_comma_separated([i \in 1..Len(self.partitions) |->
                                           ExprDisplay(self.partitions[i])])
            \o ")"
      [] self.variant = "DropConstraint" ->
            "DROP CONSTRAINT "
            \o (IF self.if_exists THEN "IF EXISTS " ELSE "")
            \o IdentDisplay(self.name)
            \o (IF ~is_some(self.drop_behavior) THEN ""
                ELSE IF unwrap(self.drop_behavior) = "Restrict" THEN " RESTRICT"
                ELSE " CASCADE")
      [] self.variant = "DropColumn" ->
            "DROP "
            \o (IF self.has_column_keyword THEN "COLUMN " ELSE "")
            \o (IF self.if_exists THEN "IF EXISTS " ELSE "")
            \o display_comma_separated(Each("Ident", self.column_names))
            \o (IF ~is_some(self.drop_behavior) THEN ""
                ELSE IF unwrap(self.drop_behavior) = "Restrict" THEN " RESTRICT"
                ELSE " CASCADE")
      [] self.variant = "ChangeColumn" ->
            "CHANGE COLUMN " \o IdentDisplay(self.old_name)
            \o " " \o IdentDisplay(self.new_name)
            \o " " \o DataTypeDisplay(self.data_type)
            \o (IF Len(self.options) # 0
                THEN " " \o display_separated([i \in 1..Len(self.options) |->
                                                  ColumnOption_fmt(self.options[i]).text], " ")
                ELSE "")
            \o (IF is_some(self.column_position)
                THEN " " \o OpaqueDisplay(unwrap(self.column_position)) ELSE "")
      [] self.variant = "ModifyColumn" ->
            "MODIFY COLUMN " \o IdentDisplay(self.col_name)
            \o " " \o DataTypeDisplay(self.data_type)
            \o (IF Len(self.options) # 0
                THEN " " \o display_separated([i \in 1..Len(self.options) |->
                                                  ColumnOption_fmt(self.options[i]).text], " ")
                ELSE "")
            \o (IF is_some(self.column_position)
                THEN " " \o OpaqueDisplay(unwrap(self.column_position)) ELSE "")
      [] self.variant = "FreezePartition" ->
            "FREEZE " \o Partition_fmt(self.partition)
            \o (IF is_some(self.with_name)
                THEN " WITH NAME " \o IdentDisplay(unwrap(self.with_name)) ELSE "")
      [] self.variant = "UnfreezePartition" ->
            "UNFREEZE " \o Partition_fmt(self.partition)
            \o (IF is_some(self.with_name)
                THEN " WITH NAME " \o IdentDisplay(unwrap(self.with_name)) ELSE "")
      [] self.variant = "AutoIncrement" ->
            "AUTO_INCREMENT "
            \o (IF self.equals THEN "= " ELSE "")
            \o OpaqueDisplay(self.value)
      [] self.variant = "Lock" ->
            "LOCK "
            \o (IF self.equals THEN "= " ELSE "")
            \o AlterTableLock_fmt(self.lock)
      [] self.variant = "ReplicaIdentity" ->
            "REPLICA IDENTITY " \o ReplicaIdentity_fmt(self.identity)

\* impl Display for AlterTableOperation
AlterTableOperation_fmt(self) ==
    CASE self.variant = "AddPartitions" ->
            "ADD"
            \o (IF self.if_not_exists THEN " IF NOT EXISTS" ELSE "")
            \o " "
            \o display_separated([i \in 1..Len(self.new_partitions) |->
                                     Partition_fmt(self.new_partitions[i])], " ")
      [] self.variant = "AddConstraint" ->
            "ADD " \o TableConstraint_fmt(self.constraint)
            \o (IF self.not_valid THEN " NOT VALID" ELSE "")
      [] self.variant = "AddColumn" ->
            "ADD"
            \o (IF self.column_keyword THEN " COLUMN" ELSE "")
            \o (IF self.if_not_exists THEN " IF NOT EXISTS" ELSE "")
            \o " " \o ColumnDef_fmt(self.column_def).text
            \o (IF is_some(self.column_position)
                THEN " " \o OpaqueDisplay(unwrap(self.column_position)) ELSE "")
      [] self.variant = "AddProjection" ->
            "ADD PROJECTION"
            \o (IF self.if_not_exists THEN " IF NOT EXISTS" ELSE "")
            \o " " \o IdentDisplay(self.name)
            \o " (" \o OpaqueDisplay(self.select) \o ")"
      [] self.variant = "Algorithm" ->
            "ALGORITHM "
            \o (IF self.equals THEN "= " ELSE "")
            \o AlterTableAlgorithm_fmt(self.algorithm)
      [] self.variant = "DropProjection" ->
            "DROP PROJECTION"
            \o (IF self.if_exists THEN " IF EXISTS" ELSE "")
            \o " " \o IdentDisplay(self.name)
      [] self.variant = "MaterializeProjection" ->
            "MATERIALIZE PROJECTION"
            \o (IF self.if_exists THEN " IF EXISTS" ELSE "")
            \o " " \o IdentDisplay(self.name)
            \o (IF is_some(self.partition)
                THEN " IN PARTITION " \o IdentDisplay(unwrap(self.partition)) ELSE "")
      [] self.variant = "ClearProjection" ->
            "CLEAR PROJECTION"
            \o (IF self.if_exists THEN " IF EXISTS" ELSE "")
            \o " " \o IdentDisplay(self.name)
            \o (IF is_some(self.partition)
                THEN " IN PARTITION " \o IdentDisplay(unwrap(self.partition)) ELSE "")
      [] self.variant = "DropPartitions" ->
            "DROP"
            \o (IF self.if_exists THEN " IF EXISTS" ELSE "")
            \o " PARTITION ("
            \o display_comma_separated([i \in 1..Len(self.partitions) |->
                                           ExprDisplay(self.partitions[i])])
            \o ")"
      [] self.variant = "DropConstraint" ->
            "DROP CONSTRAINT "
            \o (IF self.if_exists THEN "IF EXISTS " ELSE "")
            \o IdentDisplay(self.name)
            \o (IF ~is_some(self.drop_behavior) THEN ""
                ELSE IF unwrap(self.drop_behavior) = "Restrict" THEN " RESTRICT"
                ELSE " CASCADE")
      [] self.variant = "DropColumn" ->
            "DROP "
            \o (IF self.has_column_keyword THEN "COLUMN " ELSE "")
            \o (IF self.if_exists THEN "IF EXISTS " ELSE "")
            \o display_comma_separated(Each("Ident", self.column_names))
            \o (IF ~is_some(self.drop_behavior) THEN ""
                ELSE IF unwrap(self.drop_behavior) = "Restrict" THEN " RESTRICT"
                ELSE " CASCADE")
      [] self.variant = "ChangeColumn" ->
            "CHANGE COLUMN " \o IdentDisplay(self.old_name)
            \o " " \o IdentDisplay(self.new_name)
            \o " " \o DataTypeDisplay(self.data_type)
            \o (IF Len(self.options) # 0
                THEN " " \o display_separated([i \in 1..Len(self.options) |->
                                                  ColumnOption_fmt(self.options[i]).text], " ")
                ELSE "")
            \o (IF is_some(self.column_position)
                THEN " " \o OpaqueDisplay(unwrap(self.column_position)) ELSE "")
      [] self.variant = "ModifyColumn" ->
            "MODIFY COLUMN " \o IdentDisplay(self.col_name)
            \o " " \o DataTypeDisplay(self.data_type)
            \o (IF Len(self.options) # 0
                THEN " " \o display_separated([i \in 1..Len(self.options) |->
                                                  ColumnOption_fmt(self.options[i]).text], " ")
                ELSE "")
            \o (IF is_some(self.column_position)
                THEN " " \o OpaqueDisplay(unwrap(self.column_position)) ELSE "")
      [] self.variant = "FreezePartition" ->
            "FREEZE " \o Partition_fmt(self.partition)
            \o (IF is_some(self.with_name)
                THEN " WITH NAME " \o IdentDisplay(unwrap(self.with_name)) ELSE "")
      [] self.variant = "UnfreezePartition" ->
            "UNFREEZE " \o Partition_fmt(self.partition)
            \o (IF is_some(self.with_name)
                THEN " WITH NAME " \o IdentDisplay(unwrap(self.with_name)) ELSE "")
      [] self.variant = "AutoIncrement" ->
            "AUTO_INCREMENT "
            \o (IF self.equals THEN "= " ELSE "")
            \o OpaqueDisplay(self.value)
      [] self.variant = "Lock" ->
            "LOCK "
            \o (IF self.equals THEN "= " ELSE "")
            \o AlterTableLock_fmt(self.lock)
      [] self.variant = "ReplicaIdentity" ->
            "REPLICA IDENTITY " \o ReplicaIdentity_fmt(self.identity)

\* impl Display for CreateConnector
\* the AsAfterOptions body written where the AsBeforeOptions body goes
CreateFunction_fmt_body_before_options(self) ==
    LET body(variant, keyword) ==
            IF is_some(self.function_body) /\ unwrap(self.function_body).variant = variant
            THEN keyword \o OpaqueDisplay(unwrap(self.function_body).body)
            ELSE ""
    IN  "CREATE "
        \o (IF self.or_alter THEN "OR ALTER " ELSE "")
        \o (IF self.or_replace THEN "OR REPLACE " ELSE "")
        \o (IF self.temporary THEN "TEMPORARY " ELSE "")
        \o "FUNCTION "
        \o (IF self.if_not_exists THEN "IF NOT EXISTS " ELSE "")
        \o ObjectNameDisplay(self.name)
        \o (IF is_some(self.args)
            THEN "(" \o display_comma_separated(Each("Opaque", unwrap(self.args))) \o ")"
            ELSE "")
        \o (IF is_some(self.return_type)
            THEN " RETURNS " \o DataTypeDisplay(unwrap(self.return_type)) ELSE "")
        \o display_option_spaced(Opt("Opaque", self.determinism_specifier))
        \o (IF is_some(self.language)
            THEN " LANGUAGE " \o IdentDisplay(unwrap(self.language)) ELSE "")
        \o display_option_spaced(Opt("Opaque", self.behavior))
        \o display_option_spaced(Opt("Opaque", self.called_on_null))
        \o display_option_spaced(Opt("Opaque", self.parallel))
        \o (IF is_some(self.remote_connection)
            THEN " REMOTE WITH CONNECTION " \o ObjectNameDisplay(unwrap(self.remote_connection))
            ELSE "")
        \o body("AsBeforeOptions", " AS ")
        \o body("Return", " RETURN ")
        \o body("AsReturnExpr", " AS RETURN ")
        \o body("AsReturnSelect", " AS RETURN ")
        \o body("AsAfterOptions", " AS ")
        \o display_option_spaced(Opt("Opaque", self.using))
        \o (IF is_some(self.options)
            THEN " OPTIONS("
                 \o display_comma_separated(Each("Opaque", unwrap(self.options))) \o ")"
            ELSE "")
        \o body("AsBeginEnd", " AS ")

\* impl Display for CreateFunction; the body, the attributes and USING are
\* kept as the text they render to
CreateFunction_fmt(self) ==
    LET body(variant, keyword) ==
            IF is_some(self.function_body) /\ unwrap(self.function_body).variant = variant
            THEN keyword \o OpaqueDisplay(unwrap(self.function_body).body)
            ELSE ""
    IN  "CREATE "
        \o (IF self.or_alter THEN "OR ALTER " ELSE "")
        \o (IF self.or_replace THEN "OR REPLACE " ELSE "")
        \o (IF self.temporary THEN "TEMPORARY " ELSE "")
        \o "FUNCTION "
        \o (IF self.if_not_exists THEN "IF NOT EXISTS " ELSE "")
        \o ObjectNameDisplay(self.name)
        \o (IF is_some(self.args)
            THEN "(" \o display_comma_separated(Each("Opaque", unwrap(self.args))) \o ")"
            ELSE "")
        \o (IF is_some(self.return_type)
            THEN " RETURNS " \o DataTypeDisplay(unwrap(self.return_type)) ELSE "")
        \o display_option_spaced(Opt("Opaque", self.determinism_specifier))
        \o (IF is_some(self.language)
            THEN " LANGUAGE " \o IdentDisplay(unwrap(self.language)) ELSE "")
        \o display_option_spaced(Opt("Opaque", self.behavior))
        \o display_option_spaced(Opt("Opaque", self.called_on_null))
        \o display_option_spaced(Opt("Opaque", self.parallel))
        \o (IF is_some(self.remote_connection)
            THEN " REMOTE WITH CONNECTION " \o ObjectNameDisplay(unwrap(self.remote_connection))
            ELSE "")
        \o body("AsBeforeOptions", " AS ")
        \o body("Return", " RETURN ")
        \o body("AsReturnExpr", " AS RETURN ")
        \o body("AsReturnSelect", " AS RETURN ")
        \o display_option_spaced(Opt("Opaque", self.using))
        \o (IF is_some(self.options)
            THEN " OPTIONS("
                 \o display_comma_separated(Each("Opaque", unwrap(self.options))) \o ")"
            ELSE "")
        \o body("AsAfterOptions", " AS ")
        \o body("AsBeginEnd", " AS ")

CreateConnector_fmt(self) ==
    "CREATE CONNECTOR "
    \o (IF self.if_not_exists THEN "IF NOT EXISTS " ELSE "")
    \o IdentDisplay(self.name)
    \o (IF is_some(self.connector_type)
        THEN " TYPE '" \o unwrap(self.connector_type) \o "'" ELSE "")
    \o (IF is_some(self.url) THEN " URL '" \o unwrap(self.url) \o "'" ELSE "")
    \o (IF is_some(self.comment)
        THEN " COMMENT = '" \o OpaqueDisplay(unwrap(self.comment)) \o "'" ELSE "")
    \o (IF is_some(self.with_dcproperties)
        THEN " WITH DCPROPERTIES("
             \o display_comma_separated(Each("Opaque", unwrap(self.with_dcproperties))) \o ")"
        ELSE "")

----------------------------------------------------------------------------
(* ColumnDef (ast/ddl.rs).                                                 *)

ColumnDef(name, data_type, options) ==
    [name |-> name, data_type |-> data_type, options |-> options]

----------------------------------------------------------------------------
(* CreateTableBuilder (ast/helpers/stmt_create_table.rs).                  *)

HiveDistributionStyle_NONE == "NONE"
CreateTableOptions_None == "None"

TableNames == { <<Ident_new("table_name")>> }
OtherTable == <<Ident_new("other")>>
C1Int == ColumnDef(Ident_new("c1"), "Int", <<>>)

OptBool == {None, Some(TRUE), Some(FALSE)}

\* new() with if_not_exists set from the start
new_if_not_exists_by_default(name) ==
    [f \in {"or_replace", "temporary", "external", "if_not_exists", "transient",
            "volatile", "iceberg", "without_rowid", "strict", "copy_grants"}
        |-> f = "if_not_exists"]
    @@ [f \in {"columns", "constraints"} |-> <<>>]
    @@ [f \in {"global", "hive_formats", "file_format", "location", "query", "like",
               "clone", "comment", "on_commit", "on_cluster", "primary_key", "order_by",
               "partition_by", "cluster_by", "clustered_by", "inherits",
               "enable_schema_evolution", "change_tracking",
               "data_retention_time_in_days", "max_data_extension_time_in_days",
               "default_ddl_collation", "with_aggregation_policy",
               "with_row_access_policy", "with_tags", "base_location",
               "external_volume", "catalog", "catalog_sync",
               "storage_serialization_policy"} |-> None]
    @@ [name |-> name,
        hive_distribution |-> HiveDistributionStyle_NONE,
        table_options |-> CreateTableOptions_None]

new(name) ==
    [ or_replace |-> FALSE,
      temporary |-> FALSE,
      external |-> FALSE,
      global |-> None,
      if_not_exists |-> FALSE,
      transient |-> FALSE,
      volatile |-> FALSE,
      iceberg |-> FALSE,
      name |-> name,
      columns |-> <<>>,
      constraints |-> <<>>,
      hive_distribution |-> HiveDistributionStyle_NONE,
      hive_formats |-> None,
      file_format |-> None,
      location |-> None,
      query |-> None,
      without_rowid |-> FALSE,
      like |-> None,
      clone |-> None,
      comment |-> None,
      on_commit |-> None,
      on_cluster |-> None,
      primary_key |-> None,
      order_by |-> None,
      partition_by |-> None,
      cluster_by |-> None,
      clustered_by |-> None,
      inherits |-> None,
      strict |-> FALSE,
      copy_grants |-> FALSE,
      enable_schema_evolution |-> None,
      change_tracking |-> None,
      data_retention_time_in_days |-> None,
      max_data_extension_time_in_days |-> None,
      default_ddl_collation |-> None,
      with_aggregation_policy |-> None,
      with_row_access_policy |-> None,
      with_tags |-> None,
      base_location |-> None,
      external_volume |-> None,
      catalog |-> None,
      catalog_sync |-> None,
      storage_serialization_policy |-> None,
      table_options |-> CreateTableOptions_None ]

\* the field each setter assigns its argument to
SetterField ==
    [ or_replace |-> "or_replace",
      temporary |-> "temporary",
      external |-> "external",
      global |-> "global",
      if_not_exists |-> "if_not_exists",
      transient |-> "transient",
      volatile |-> "volatile",
      iceberg |-> "iceberg",
      columns |-> "columns",
      constraints |-> "constraints",
      hive_distribution |-> "hive_distribution",
      hive_formats |-> "hive_formats",
      file_format |-> "file_format",
      location |-> "location",
      query |-> "query",
      without_rowid |-> "without_rowid",
      like |-> "like",
      clone_clause |-> "clone",
      comment_after_column_def |-> "comment",
      on_commit |-> "on_commit",
      on_cluster |-> "on_cluster",
      primary_key |-> "primary_key",
      order_by |-> "order_by",
      partition_by |-> "partition_by",
      cluster_by |-> "cluster_by",
      clustered_by |-> "clustered_by",
      inherits |-> "inherits",
      strict |-> "strict",
      copy_grants |-> "copy_grants",
      enable_schema_evolution |-> "enable_schema_evolution",
      change_tracking |-> "change_tracking",
      data_retention_time_in_days |-> "data_retention_time_in_days",
      max_data_extension_time_in_days |-> "max_data_extension_time_in_days",
      default_ddl_collation |-> "default_ddl_collation",
      with_aggregation_policy |-> "with_aggregation_policy",
      with_row_access_policy |-> "with_row_access_policy",
      with_tags |-> "with_tags",
      base_location |-> "base_location",
      external_volume |-> "external_volume",
      catalog |-> "catalog",
      catalog_sync |-> "catalog_sync",
      storage_serialization_policy |-> "storage_serialization_policy",
      table_options |-> "table_options" ]

\* the arguments each setter is called with
SetterArgs ==
    LET optName == {None, Some(OtherTable)}
        optString == {None, Some("s")}
        opaque == {None, Some("x")}
    IN  [ or_replace |-> BOOLEAN,
          temporary |-> BOOLEAN,
          external |-> BOOLEAN,
          global |-> OptBool,
          if_not_exists |-> BOOLEAN,
          transient |-> BOOLEAN,
          volatile |-> BOOLEAN,
          iceberg |-> BOOLEAN,
          columns |-> { <<>>, <<C1Int>> },
          constraints |-> { <<>>, <<"PRIMARY KEY (c1)">> },
          hive_distribution |-> {HiveDistributionStyle_NONE, "PARTITIONED"},
          hive_formats |-> opaque,
          file_format |-> opaque,
          location |-> optString,
          query |-> {None, Some([text |-> "SELECT 1"])},
          without_rowid |-> BOOLEAN,
          like |-> optName,
          clone_clause |-> optName,
          comment_after_column_def |-> opaque,
          on_commit |-> opaque,
          on_cluster |-> {None, Some(Ident_new("cluster"))},
          primary_key |-> {None, Some([text |-> "a"])},
          order_by |-> opaque,
          partition_by |-> {None, Some([text |-> "a"])},
          cluster_by |-> opaque,
          clustered_by |-> opaque,
          inherits |-> opaque,
          strict |-> BOOLEAN,
          copy_grants |-> BOOLEAN,
          enable_schema_evolution |-> OptBool,
          change_tracking |-> OptBool,
          data_retention_time_in_days |-> {None, Some(1)},
          max_data_extension_time_in_days |-> {None, Some(1)},
          default_ddl_collation |-> optString,
          with_aggregation_policy |-> optName,
          with_row_access_policy |-> opaque,
          with_tags |-> opaque,
          base_location |-> optString,
          external_volume |-> optString,
          catalog |-> optString,
          catalog_sync |-> optString,
          storage_serialization_policy |-> opaque,
          table_options |-> {CreateTableOptions_None, "Plain"} ]

\* the setters with clone_clause writing like
setter_clone_clause_writes_like(self, name, v) ==
    IF name = "clone_clause" THEN [self EXCEPT !.like = v]
    ELSE [self EXCEPT ![SetterField[name]] = v]

\* pub fn <name>(mut self, <field>: T) -> Self
setter(self, name, v) == [self EXCEPT ![SetterField[name]] = v]

\* validate_schema_info accepting any builder that has a source
validate_schema_info_at_least_one(self) ==
    LET s0 == 0
        s1 == IF Len(self.columns) # 0 THEN s0 + 1 ELSE s0
        s2 == IF is_some(self.query) THEN s1 + 1 ELSE s1
        s3 == IF is_some(self.like) THEN s2 + 1 ELSE s2
        s4 == IF is_some(self.clone) THEN s3 + 1 ELSE s3
    IN  s4 >= 1

\* Returns true if the statement has exactly one source of info on the schema
validate_schema_info(self) ==
    LET s0 == 0
        s1 == IF Len(self.columns) # 0 THEN s0 + 1 ELSE s0
        s2 == IF is_some(self.query) THEN s1 + 1 ELSE s1
        s3 == IF is_some(self.like) THEN s2 + 1 ELSE s2
        s4 == IF is_some(self.clone) THEN s3 + 1 ELSE s3
    IN  s4 = 1

\* the CreateTable { .. } literal of build()
build_CreateTable(self) ==
    [ or_replace |-> self.or_replace,
      temporary |-> self.temporary,
      external |-> self.external,
      global |-> self.global,
      if_not_exists |-> self.if_not_exists,
      transient |-> self.transient,
      volatile |-> self.volatile,
      iceberg |-> self.iceberg,
      name |-> self.name,
      columns |-> self.columns,
      constraints |-> self.constraints,
      hive_distribution |-> self.hive_distribution,
      hive_formats |-> self.hive_formats,
      file_format |-> self.file_format,
      location |-> self.location,
      query |-> self.query,
      without_rowid |-> self.without_rowid,
      like |-> self.like,
      clone |-> self.clone,
      comment |-> self.comment,
      on_commit |-> self.on_commit,
      on_cluster |-> self.on_cluster,
      primary_key |-> self.primary_key,
      order_by |-> self.order_by,
      partition_by |-> self.partition_by,
      cluster_by |-> self.cluster_by,
      clustered_by |-> self.clustered_by,
      inherits |-> self.inherits,
      strict |-> self.strict,
      copy_grants |-> self.copy_grants,
      enable_schema_evolution |-> self.enable_schema_evolution,
      change_tracking |-> self.change_tracking,
      data_retention_time_in_days |-> self.data_retention_time_in_days,
      max_data_extension_time_in_days |-> self.max_data_extension_time_in_days,
      default_ddl_collation |-> self.default_ddl_collation,
      with_aggregation_policy |-> self.with_aggregation_policy,
      with_row_access_policy |-> self.with_row_access_policy,
      with_tags |-> self.with_tags,
      base_location |-> self.base_location,
      external_volume |-> self.external_volume,
      catalog |-> self.catalog,
      catalog_sync |-> self.catalog_sync,
      storage_serialization_policy |-> self.storage_serialization_policy,
      table_options |-> self.table_options ]

\* build() with the query left out of the statement
build_without_query(self) ==
    [variant |-> "CreateTable", ct |-> [build_CreateTable(self) EXCEPT !.query = None]]

\* build() with like and clone exchanged in the statement
build_like_clone_swapped(self) ==
    [variant |-> "CreateTable",
     ct |-> [build_CreateTable(self) EXCEPT !.like = self.clone, !.clone = self.like]]

build(self) == [variant |-> "CreateTable", ct |-> build_CreateTable(self)]

\* Statement::Commit { chain, end, modifier }
Commit(chain, end, modifier) ==
    [variant |-> "Commit", chain |-> chain, end |-> end, modifier |-> modifier]

\* what ColumnDef's fmt writes for a column on the way through CreateTable's
ColumnDef_text(c) == ColumnDef_fmt(c).text

\* impl Display for CreateTable: the head of the statement and its column list
CreateTableDisplay(ct) ==
    "CREATE "
    \o (IF ct.or_replace THEN "OR REPLACE " ELSE "")
    \o (IF ct.external THEN "EXTERNAL " ELSE "")
    \o (IF ct.global = Some(TRUE) THEN "GLOBAL "
        ELSE IF ct.global = Some(FALSE) THEN "LOCAL " ELSE "")
    \o (IF ct.temporary THEN "TEMPORARY " ELSE "")
    \o (IF ct.transient THEN "TRANSIENT " ELSE "")
    \o (IF ct.volatile THEN "VOLATILE " ELSE "")
    \o (IF ct.iceberg THEN "ICEBERG " ELSE "")
    \o "TABLE "
    \o (IF ct.if_not_exists THEN "IF NOT EXISTS " ELSE "")
    \o ObjectNameDisplay(ct.name)
    \o (IF Len(ct.columns) # 0 \/ Len(ct.constraints) # 0
        THEN " (" \o display_comma_separated([i \in 1..Len(ct.columns) |-> ColumnDef_text(ct.columns[i])])
             \o (IF Len(ct.columns) # 0 /\ Len(ct.constraints) # 0 THEN ", " ELSE "")
             \o Join(ct.constraints, ", ") \o ")"
        ELSE IF ~is_some(ct.query) /\ ~is_some(ct.like) /\ ~is_some(ct.clone)
        THEN " ()" ELSE "")

\* impl Display for Statement: CREATE TABLE, the COMMIT of
\* test_from_invalid_statement and a query, which renders to its source text
StatementDisplay(s) ==
    CASE s.variant = "CreateTable" -> CreateTableDisplay(s.ct)
      [] s.variant = "Commit" -> "COMMIT"
      [] s.variant = "Query" -> s.text

OtherStatements ==
    { Commit(FALSE, FALSE, None),
      [variant |-> "Query", text |-> "SELECT * FROM src[0].a AS a"] }

\* the Ok(Self { .. }) literal of try_from, from the fields the pattern binds
try_from_Self(ct) ==
    [ or_replace |-> ct.or_replace,
      temporary |-> ct.temporary,
      external |-> ct.external,
      global |-> ct.global,
      if_not_exists |-> ct.if_not_exists,
      transient |-> ct.transient,
      name |-> ct.name,
      columns |-> ct.columns,
      constraints |-> ct.constraints,
      hive_distribution |-> ct.hive_distribution,
      hive_formats |-> ct.hive_formats,
      file_format |-> ct.file_format,
      location |-> ct.location,
      query |-> ct.query,
      without_rowid |-> ct.without_rowid,
      like |-> ct.like,
      clone |-> ct.clone,
      comment |-> ct.comment,
      on_commit |-> ct.on_commit,
      on_cluster |-> ct.on_cluster,
      primary_key |-> ct.primary_key,
      order_by |-> ct.order_by,
      partition_by |-> ct.partition_by,
      cluster_by |-> ct.cluster_by,
      clustered_by |-> ct.clustered_by,
      inherits |-> ct.inherits,
      strict |-> ct.strict,
      iceberg |-> ct.iceberg,
      copy_grants |-> ct.copy_grants,
      enable_schema_evolution |-> ct.enable_schema_evolution,
      change_tracking |-> ct.change_tracking,
      data_retention_time_in_days |-> ct.data_retention_time_in_days,
      max_data_extension_time_in_days |-> ct.max_data_extension_time_in_days,
      default_ddl_collation |-> ct.default_ddl_collation,
      with_aggregation_policy |-> ct.with_aggregation_policy,
      with_row_access_policy |-> ct.with_row_access_policy,
      with_tags |-> ct.with_tags,
      volatile |-> ct.volatile,
      base_location |-> ct.base_location,
      external_volume |-> ct.external_volume,
      catalog |-> ct.catalog,
      catalog_sync |-> ct.catalog_sync,
      storage_serialization_policy |-> ct.storage_serialization_policy,
      table_options |-> ct.table_options ]

\* try_from with volatile left at its default
try_from_volatile_lost(s) ==
    IF s.variant = "CreateTable"
    THEN Ok([try_from_Self(s.ct) EXCEPT !.volatile = FALSE])
    ELSE Err(ParserError("Expected create table statement, but received: "
                         \o StatementDisplay(s)))

\* try_from answering a statement of another kind with a default builder
try_from_never_fails(s) ==
    IF s.variant = "CreateTable"
    THEN Ok(try_from_Self(s.ct))
    ELSE Ok(new(<<>>))

\* impl TryFrom<Statement> for CreateTableBuilder
try_from(s) ==
    IF s.variant = "CreateTable"
    THEN Ok(try_from_Self(s.ct))
    ELSE Err(ParserError("Expected create table statement, but received: "
                         \o StatementDisplay(s)))

----------------------------------------------------------------------------
(* The AST values handed to the renderers.                                 *)

IdentC == Ident_new("c")
IdentQuoted == Ident_with_quote("\"", "my c")
NameT == <<Ident_new("s"), Ident_new("t")>>
ExprA == [text |-> "a + 1"]
ColA == [text |-> "a"]

OptIdents == {None, Some(IdentC)}
OptExprs == {None, Some(ExprA)}
Strings == {"", "plain", "it's", "'"}
DropBehaviors == {"Restrict", "Cascade"}
ReferentialActions == {"Restrict", "Cascade", "SetNull", "NoAction", "SetDefault"}
KeyOrIndexDisplays == {"None", "Key", "Index"}
NullsDistinctOptions == {"None", "Distinct", "NotDistinct"}
GeneratedAsValues == {"Always", "ByDefault", "ExpStored"}
GeneratedExpressionModes == {"Virtual", "Stored"}
IndexTypes ==
    {[variant |-> v] : v \in {"BTree", "Hash", "GIN", "GiST", "SPGiST", "BRIN", "Bloom"}}
    \cup {[variant |-> "Custom", name |-> IdentC]}
IndexOptions ==
    {[variant |-> "Using", index_type |-> t] : t \in IndexTypes}
    \cup {[variant |-> "Comment", s |-> s] : s \in Strings}
IndexOptionLists ==
    { <<>>, <<[variant |-> "Using", index_type |-> [variant |-> "BTree"]]>>,
      <<[variant |-> "Comment", s |-> "it's"]>> }
SequenceOptionLists ==
    { <<>>, <<[text |-> " INCREMENT BY 1"]>>,
      <<[text |-> " INCREMENT BY 1"], [text |-> " MINVALUE 1"]>> }

ConstraintCharacteristicsSet ==
    [deferrable : OptBool,
     initially : {None, Some("Immediate"), Some("Deferred")},
     enforced : OptBool]
OptCharacteristics == {None} \cup {Some(c) : c \in ConstraintCharacteristicsSet}

TableConstraints ==
    [variant : {"Unique"}, name : OptIdents, index_name : OptIdents,
     index_type_display : KeyOrIndexDisplays,
     index_type : {None, Some([variant |-> "BTree"])},
     columns : { <<ColA>> }, index_options : IndexOptionLists,
     characteristics : OptCharacteristics, nulls_distinct : NullsDistinctOptions]
    \cup
    [variant : {"PrimaryKey"}, name : OptIdents, index_name : OptIdents,
     index_type : {None, Some([variant |-> "Hash"])},
     columns : { <<ColA>> }, index_options : IndexOptionLists,
     characteristics : OptCharacteristics]
    \cup
    [variant : {"ForeignKey"}, name : OptIdents, index_name : OptIdents,
     columns : { <<IdentC>> }, foreign_table : {NameT},
     referred_columns : { <<>>, <<IdentC>> },
     on_delete : {None, Some("Cascade")}, on_update : {None, Some("SetNull")},
     characteristics : OptCharacteristics]
    \cup
    [variant : {"Check"}, name : OptIdents, expr : {ExprA}, enforced : OptBool]
    \cup
    [variant : {"Index"}, display_as_key : BOOLEAN, name : OptIdents,
     index_type : {None, Some([variant |-> "BTree"])}, columns : { <<ColA>> }]
    \cup
    [variant : {"FulltextOrSpatial"}, fulltext : BOOLEAN,
     index_type_display : KeyOrIndexDisplays, opt_index_name : OptIdents,
     columns : { <<ColA>>, <<ColA, ColA>> }]

IdentityProperties ==
    [parameters : {None}
        \cup {Some([variant |-> v, parameters |-> [seed |-> ExprA, increment |-> ExprA]])
              : v \in {"FunctionCall", "StartAndIncrement"}},
     order : {None, Some("Order"), Some("NoOrder")}]

ColumnOptions ==
    {[variant |-> "Null"], [variant |-> "NotNull"]}
    \cup [variant : {"Default", "Materialized", "Alias", "Check", "OnUpdate"}, expr : {ExprA}]
    \cup [variant : {"Ephemeral"}, expr : OptExprs]
    \cup [variant : {"Unique"}, is_primary : BOOLEAN, characteristics : OptCharacteristics]
    \cup [variant : {"ForeignKey"}, foreign_table : {NameT},
          referred_columns : { <<>>, <<IdentC>> },
          on_delete : {None} \cup {Some(a) : a \in ReferentialActions},
          on_update : {None, Some("NoAction")},
          characteristics : OptCharacteristics]
    \cup [variant : {"DialectSpecific"},
          val : { <<[text |-> "AUTO_INCREMENT"]>>, <<>> }]
    \cup [variant : {"CharacterSet", "Collation"}, n : {NameT}]
    \cup [variant : {"Comment"}, v : Strings]
    \cup [variant : {"Generated"}, generated_as : GeneratedAsValues,
          sequence_options : {None} \cup {Some(l) : l \in SequenceOptionLists},
          generation_expr : OptExprs,
          generation_expr_mode : {None} \cup {Some(m) : m \in GeneratedExpressionModes},
          generated_keyword : BOOLEAN]
    \cup [variant : {"Options"}, options : { <<>>, <<[text |-> "description = 'd'"]>> }]
    \cup [variant : {"Identity"},
          parameters : [variant : {"Identity", "Autoincrement"},
                        property : IdentityProperties]]
    \cup [variant : {"OnConflict"}, keyword : {[text |-> "FAIL"]}]
    \cup [variant : {"Policy"},
          parameters : [variant : {"MaskingPolicy", "ProjectionPolicy"},
                        property : [with : BOOLEAN, policy_name : {NameT},
                                    using_columns : {None, Some(<<IdentC>>)}]]]
    \cup [variant : {"Tags"},
          tags : [with : BOOLEAN, tags : { <<[text |-> "A = 'Tag A'"]>> }]]
    \cup [variant : {"Srid"}, srid : {[text |-> "4326"]}]

ColumnDefs ==
    [name : {Ident_new("c1")}, data_type : {"Int", "Unspecified"},
     options : { <<>>,
                 <<[name |-> None, option |-> [variant |-> "NotNull"]]>>,
                 <<[name |-> Some(IdentC), option |-> [variant |-> "NotNull"]],
                   [name |-> None, option |-> [variant |-> "Comment", v |-> "it's"]]>> }]

\* the lists of options a view column is given
ColumnOptionLists ==
    { <<>>,
      <<[variant |-> "NotNull"]>>,
      <<[variant |-> "NotNull"], [variant |-> "Comment", v |-> "it's"]>>,
      <<[variant |-> "Default", expr |-> ExprA], [variant |-> "NotNull"],
        [variant |-> "Unique", is_primary |-> TRUE, characteristics |-> None]>>,
      <<[variant |-> "Options", options |-> <<[text |-> "description = 'd'"]>>]>> }

ViewColumnDefs ==
    [name : {IdentC, IdentQuoted}, data_type : {None, Some("Int")},
     options : {None} \cup {Some(o) : o \in [variant : {"CommaSeparated", "SpaceSeparated"},
                                            options : ColumnOptionLists]}]

ReplicaIdentities ==
    {[variant |-> v] : v \in {"None", "Full", "Default"}}
    \cup {[variant |-> "Index", idx |-> i] : i \in {IdentC, IdentQuoted}}

AlterTableOperations ==
    LET names == {IdentC, IdentQuoted}
        opt_names == {None} \cup {Some(n) : n \in names}
        drop_behaviors == {None} \cup {Some(b) : b \in DropBehaviors}
        partitions == {[variant |-> "Identifier", id |-> IdentC],
                       [variant |-> "Expr", expr |-> ExprA],
                       [variant |-> "Part", expr |-> ExprA],
                       [variant |-> "Partitions", partitions |-> <<ExprA, ColA>>]}
        positions == {None, Some([text |-> "FIRST"]), Some([text |-> "AFTER c"])}
        options == { <<>>, <<[variant |-> "NotNull"]>> }
    IN  [variant : {"AddPartitions"}, if_not_exists : BOOLEAN,
         new_partitions : { <<[variant |-> "Partitions", partitions |-> <<ExprA>>]>>,
                            <<[variant |-> "Partitions", partitions |-> <<ExprA>>],
                              [variant |-> "Partitions", partitions |-> <<ColA>>]>> }]
        \cup [variant : {"AddConstraint"}, not_valid : BOOLEAN,
              constraint : {c \in TableConstraints : c.variant = "Check"}]
        \cup [variant : {"AddColumn"}, column_keyword : BOOLEAN, if_not_exists : BOOLEAN,
              column_def : {c \in ColumnDefs : Len(c.options) <= 1},
              column_position : positions]
        \cup [variant : {"AddProjection"}, if_not_exists : BOOLEAN, name : names,
              select : {[text |-> "SELECT a ORDER BY a"]}]
        \cup [variant : {"Algorithm"}, equals : BOOLEAN,
              algorithm : {"Default", "Instant", "Inplace", "Copy"}]
        \cup [variant : {"DropProjection"}, if_exists : BOOLEAN, name : names]
        \cup [variant : {"MaterializeProjection", "ClearProjection"}, if_exists : BOOLEAN,
              name : {IdentC}, partition : opt_names]
        \cup [variant : {"DropPartitions"}, partitions : { <<ExprA>>, <<ExprA, ColA>> },
              if_exists : BOOLEAN]
        \cup [variant : {"DropConstraint"}, if_exists : BOOLEAN, name : names,
              drop_behavior : drop_behaviors]
        \cup [variant : {"DropColumn"}, has_column_keyword : BOOLEAN,
              column_names : { <<IdentC>>, <<IdentC, IdentQuoted>> },
              if_exists : BOOLEAN, drop_behavior : drop_behaviors]
        \cup [variant : {"ChangeColumn"}, old_name : {IdentC}, new_name : names,
              data_type : {"Int"}, options : options, column_position : positions]
        \cup [variant : {"ModifyColumn"}, col_name : {IdentC}, data_type : {"Int", "Text"},
              options : options, column_position : positions]
        \cup [variant : {"FreezePartition", "UnfreezePartition"}, partition : partitions,
              with_name : opt_names]
        \cup [variant : {"AutoIncrement"}, equals : BOOLEAN,
              value : {[text |-> "5"], [text |-> "100"]}]
        \cup [variant : {"Lock"}, equals : BOOLEAN,
              lock : {"Default", "None", "Shared", "Exclusive"}]
        \cup [variant : {"ReplicaIdentity"}, identity : ReplicaIdentities]

AlterColumnOperations ==
    {[variant |-> v] : v \in {"SetNotNull", "DropNotNull", "DropDefault"}}
    \cup [variant : {"SetDefault"}, value : {ExprA, ColA}]
    \cup [variant : {"SetDataType"}, data_type : {"Int", "Text"}, using : OptExprs,
          had_set : BOOLEAN]
    \cup [variant : {"AddGenerated"},
          generated_as : {None} \cup {Some(g) : g \in GeneratedAsValues},
          sequence_options : {None} \cup {Some(l) : l \in SequenceOptionLists}]

\* CreateFunction values: the header flags, the attribute clauses and every
\* other optional clause absent or present, with no body or one of each kind
CreateFunctions ==
    {[or_alter |-> flags, or_replace |-> flags, temporary |-> flags,
      if_not_exists |-> flags, name |-> NameT,
      args |-> IF clauses.args THEN Some(<<[text |-> "x INT"]>>) ELSE None,
      return_type |-> IF clauses.return_type THEN Some("Int") ELSE None,
      function_body |-> function_body,
      behavior |-> IF clauses.attributes THEN Some([text |-> "IMMUTABLE"]) ELSE None,
      called_on_null |-> IF clauses.attributes THEN Some([text |-> "STRICT"]) ELSE None,
      parallel |-> IF clauses.attributes THEN Some([text |-> "PARALLEL SAFE"]) ELSE None,
      using |-> IF clauses.using THEN Some([text |-> "USING JAR 'f.jar'"]) ELSE None,
      language |-> IF clauses.language THEN Some(Ident_new("js")) ELSE None,
      determinism_specifier |-> IF clauses.attributes
                                THEN Some([text |-> "DETERMINISTIC"]) ELSE None,
      options |-> IF clauses.options THEN Some(<<[text |-> "a = 1"]>>) ELSE None,
      remote_connection |-> IF clauses.remote_connection THEN Some(NameT) ELSE None] :
        flags \in BOOLEAN,
        clauses \in [args : BOOLEAN, return_type : BOOLEAN, attributes : BOOLEAN,
                     using : BOOLEAN, language : BOOLEAN, options : BOOLEAN,
                     remote_connection : BOOLEAN],
        function_body \in {None}
            \cup {Some([variant |-> v, body |-> [text |-> "x + 1"]]) :
                    v \in {"AsBeforeOptions", "AsAfterOptions", "Return", "AsReturnExpr"}}
            \cup {Some([variant |-> "AsReturnSelect", body |-> [text |-> "SELECT 1"]]),
                  Some([variant |-> "AsBeginEnd",
                        body |-> [text |-> "BEGIN SELECT 2; END"]])}}

CreateConnectors ==
    [name : {IdentC}, if_not_exists : BOOLEAN,
     connector_type : {None} \cup {Some(s) : s \in Strings},
     url : {None} \cup {Some(s) : s \in Strings},
     comment : {None, Some([text |-> "hello"])},
     with_dcproperties : {None, Some(<<[text |-> "'k' = 'v'"]>>)}]

----------------------------------------------------------------------------
(* One action per Display impl: a node is formatted into an empty sink,    *)
(* once per behaviour (a fmt call leaves nothing behind for the next one). *)

Format(type, value, outcome) ==
    /\ node = None
    /\ node' = Some([type |-> type, value |-> value])
    /\ out' = Some(outcome)
    /\ UNCHANGED builderVars
    /\ UNCHANGED tokenizerVars
    /\ UNCHANGED parserVars

FmtAlterTableOperation ==
    \E o \in AlterTableOperations :
        Format("AlterTableOperation", o, Returned(AlterTableOperation_fmt(o)))

FmtAlterColumnOperation ==
    \E o \in AlterColumnOperations :
        Format("AlterColumnOperation", o, Returned(AlterColumnOperation_fmt(o)))

FmtTableConstraint ==
    \E c \in TableConstraints :
        Format("TableConstraint", c, Returned(TableConstraint_fmt(c)))

FmtConstraintCharacteristics ==
    \E c \in ConstraintCharacteristicsSet :
        Format("ConstraintCharacteristics", c, Returned(ConstraintCharacteristics_fmt(c)))

\* {} and {:>} of a KeyOrIndexDisplay
FmtKeyOrIndexDisplay ==
    \E k \in KeyOrIndexDisplays, right_align \in BOOLEAN :
        Format("KeyOrIndexDisplay", [display |-> k, right_align |-> right_align],
               Returned(KeyOrIndexDisplay_fmt(k, right_align)))

FmtIndexOption ==
    \E o \in IndexOptions : Format("IndexOption", o, Returned(IndexOption_fmt(o)))

FmtColumnOption ==
    \E o \in ColumnOptions : Format("ColumnOption", o, ColumnOption_fmt(o))

FmtColumnDef ==
    \E c \in ColumnDefs : Format("ColumnDef", c, ColumnDef_fmt(c))

FmtViewColumnDef ==
    \E c \in ViewColumnDefs : Format("ViewColumnDef", c, ViewColumnDef_fmt(c))

FmtCreateFunction ==
    \E c \in CreateFunctions : Format("CreateFunction", c, Returned(CreateFunction_fmt(c)))

FmtCreateConnector ==
    \E c \in CreateConnectors : Format("CreateConnector", c, Returned(CreateConnector_fmt(c)))

NextRender ==
    \/ FmtAlterTableOperation
    \/ FmtAlterColumnOperation
    \/ FmtTableConstraint
    \/ FmtConstraintCharacteristics
    \/ FmtKeyOrIndexDisplay
    \/ FmtIndexOption
    \/ FmtColumnOption
    \/ FmtColumnDef
    \/ FmtViewColumnDef
    \/ FmtCreateFunction
    \/ FmtCreateConnector

----------------------------------------------------------------------------
(* GenericTokenizer (generic_tokenizer.rs).                                *)

Digits == {"0", "1", "2", "3", "4", "5", "6", "7", "8", "9"}
Alphabet == {" ", "\t", "\n", "1", "9", "+", "-", "*", "/", "a", ".", "_", "(", "\r"}

\* every source of at most MaxLen characters, and the malformed numeric 1.2.3
Inputs ==
    UNION {[1..n -> Alphabet] : n \in 0..MaxLen} \cup {<<"1", ".", "2", ".", "3">>}

Position_new(line, col) == [line |-> line, col |-> col]
UnexpectedChar(ch, position) ==
    [variant |-> "UnexpectedChar", ch |-> ch, position |-> position]

\* the loop stopping after one more digit at most
digits_from_one_at_most(chars, p) ==
    IF p < Len(chars) /\ chars[p + 1] \in Digits THEN 1 ELSE 0

RECURSIVE digits_from(_, _)
\* the while-let loop: how many digits are peeked and consumed from offset p on
digits_from(chars, p) ==
    IF p < Len(chars) /\ chars[p + 1] \in Digits
    THEN 1 + digits_from(chars, p + 1)
    ELSE 0

\* next_token with the digits after the first only peeked, never consumed
next_token_digits_not_consumed(chars, p) ==
    IF p >= Len(chars) THEN [ret |-> Ok(None), pos |-> p]
    ELSE LET ch == chars[p + 1]
         IN  CASE ch \in {" ", "\t", "\n"} ->
                    [ret |-> Ok(Some([variant |-> "Whitespace", ch |-> ch])), pos |-> p + 1]
               [] ch \in Digits ->
                    LET n == digits_from(chars, p + 1)
                    IN  [ret |-> Ok(Some([variant |-> "Literal",
                                          s |-> Concat(SubSeq(chars, p + 1, p + 1 + n))])),
                         pos |-> p + 1]
               [] ch = "+" -> [ret |-> Ok(Some([variant |-> "Plus"])), pos |-> p + 1]
               [] ch = "-" -> [ret |-> Ok(Some([variant |-> "Minus"])), pos |-> p + 1]
               [] ch = "*" -> [ret |-> Ok(Some([variant |-> "Mult"])), pos |-> p + 1]
               [] ch = "/" -> [ret |-> Ok(Some([variant |-> "Divide"])), pos |-> p + 1]
               [] OTHER ->
                    [ret |-> Err(UnexpectedChar(ch, Position_new(0, 0))), pos |-> p + 1]

\* next_token taking a carriage return for whitespace
next_token_carriage_return_whitespace(chars, p) ==
    IF p >= Len(chars) THEN [ret |-> Ok(None), pos |-> p]
    ELSE LET ch == chars[p + 1]
         IN  CASE ch \in {" ", "\t", "\n", "\r"} ->
                    [ret |-> Ok(Some([variant |-> "Whitespace", ch |-> ch])), pos |-> p + 1]
               [] ch \in Digits ->
                    LET n == digits_from(chars, p + 1)
                    IN  [ret |-> Ok(Some([variant |-> "Literal",
                                          s |-> Concat(SubSeq(chars, p + 1, p + 1 + n))])),
                         pos |-> p + 1 + n]
               [] ch = "+" -> [ret |-> Ok(Some([variant |-> "Plus"])), pos |-> p + 1]
               [] ch = "-" -> [ret |-> Ok(Some([variant |-> "Minus"])), pos |-> p + 1]
               [] ch = "*" -> [ret |-> Ok(Some([variant |-> "Mult"])), pos |-> p + 1]
               [] ch = "/" -> [ret |-> Ok(Some([variant |-> "Divide"])), pos |-> p + 1]
               [] OTHER ->
                    [ret |-> Err(UnexpectedChar(ch, Position_new(0, 0))), pos |-> p + 1]

\* next_token ending the stream at a character it does not accept
next_token_none_on_unexpected(chars, p) ==
    IF p >= Len(chars) THEN [ret |-> Ok(None), pos |-> p]
    ELSE LET ch == chars[p + 1]
         IN  CASE ch \in {" ", "\t", "\n"} ->
                    [ret |-> Ok(Some([variant |-> "Whitespace", ch |-> ch])), pos |-> p + 1]
               [] ch \in Digits ->
                    LET n == digits_from(chars, p + 1)
                    IN  [ret |-> Ok(Some([variant |-> "Literal",
                                          s |-> Concat(SubSeq(chars, p + 1, p + 1 + n))])),
                         pos |-> p + 1 + n]
               [] ch = "+" -> [ret |-> Ok(Some([variant |-> "Plus"])), pos |-> p + 1]
               [] ch = "-" -> [ret |-> Ok(Some([variant |-> "Minus"])), pos |-> p + 1]
               [] ch = "*" -> [ret |-> Ok(Some([variant |-> "Mult"])), pos |-> p + 1]
               [] ch = "/" -> [ret |-> Ok(Some([variant |-> "Divide"])), pos |-> p + 1]
               [] OTHER -> [ret |-> Ok(None), pos |-> p + 1]

\* next_token peeking at the character it rejects and leaving it in the stream
next_token_error_restores(chars, p) ==
    IF p >= Len(chars) THEN [ret |-> Ok(None), pos |-> p]
    ELSE LET ch == chars[p + 1]
         IN  CASE ch \in {" ", "\t", "\n"} ->
                    [ret |-> Ok(Some([variant |-> "Whitespace", ch |-> ch])), pos |-> p + 1]
               [] ch \in Digits ->
                    LET n == digits_from(chars, p + 1)
                    IN  [ret |-> Ok(Some([variant |-> "Literal",
                                          s |-> Concat(SubSeq(chars, p + 1, p + 1 + n))])),
                         pos |-> p + 1 + n]
               [] ch = "+" -> [ret |-> Ok(Some([variant |-> "Plus"])), pos |-> p + 1]
               [] ch = "-" -> [ret |-> Ok(Some([variant |-> "Minus"])), pos |-> p + 1]
               [] ch = "*" -> [ret |-> Ok(Some([variant |-> "Mult"])), pos |-> p + 1]
               [] ch = "/" -> [ret |-> Ok(Some([variant |-> "Divide"])), pos |-> p + 1]
               [] OTHER ->
                    [ret |-> Err(UnexpectedChar(ch, Position_new(0, 0))), pos |-> p]

\* next_token on the stream chars with p characters already taken:
\* what it returns and how many characters are taken afterwards
next_token(chars, p) ==
    IF p >= Len(chars) THEN [ret |-> Ok(None), pos |-> p]
    ELSE LET ch == chars[p + 1]
         IN  CASE ch \in {" ", "\t", "\n"} ->
                    [ret |-> Ok(Some([variant |-> "Whitespace", ch |-> ch])), pos |-> p + 1]
               [] ch \in Digits ->
                    LET n == digits_from(chars, p + 1)
                    IN  [ret |-> Ok(Some([variant |-> "Literal",
                                          s |-> Concat(SubSeq(chars, p + 1, p + 1 + n))])),
                         pos |-> p + 1 + n]
               [] ch = "+" -> [ret |-> Ok(Some([variant |-> "Plus"])), pos |-> p + 1]
               [] ch = "-" -> [ret |-> Ok(Some([variant |-> "Minus"])), pos |-> p + 1]
               [] ch = "*" -> [ret |-> Ok(Some([variant |-> "Mult"])), pos |-> p + 1]
               [] ch = "/" -> [ret |-> Ok(Some([variant |-> "Divide"])), pos |-> p + 1]
               [] OTHER ->
                    [ret |-> Err(UnexpectedChar(ch, Position_new(0, 0))), pos |-> p + 1]

\* one call of next_token by a client that keeps the tokens it is given and
\* counts the calls that gave it a token or an error (it stops counting once
\* there were more of them than the source has characters)
NextToken ==
    LET r == next_token(input, pos)
    IN  /\ ret' = Some(r.ret)
        /\ pos' = r.pos
        /\ spans' = IF r.ret.ok /\ is_some(r.ret.val)
                     THEN Append(spans, [token |-> unwrap(r.ret.val),
                                         start |-> pos, end |-> r.pos])
                     ELSE spans
        /\ calls' = IF (r.ret.ok /\ r.ret.val = None) \/ calls > Len(input)
                     THEN calls
                     ELSE calls + 1
        /\ UNCHANGED input
    /\ UNCHANGED builderVars
    /\ UNCHANGED renderVars
    /\ UNCHANGED parserVars

----------------------------------------------------------------------------
(* The Redshift dialect, the tokenizer and the parser for the statements   *)
(* of tests/sqlparser_redshift.rs: SELECT <item> FROM <table> [AS alias].  *)
(* Their code is not part of the slice; they follow the specification.     *)

\* a character of the text s, by the number of characters before it
CharAt(s, i) == SubSeq(s, i + 1, i + 1)

\* RedshiftSqlDialect: an identifier starts with a letter, _ or #
is_identifier_start(ch) ==
    LET lower == "abcdefghijklmnopqrstuvwxyz"
        upper == "ABCDEFGHIJKLMNOPQRSTUVWXYZ"
    IN  \/ \E k \in 1..26 : ch = SubSeq(lower, k, k) \/ ch = SubSeq(upper, k, k)
        \/ ch \in {"_", "#"}

\* and goes on with letters, digits, _ and #
is_identifier_part(ch) == is_identifier_start(ch) \/ ch \in Digits

\* the ASCII uppercase spelling a word is matched against the keyword table by
to_uppercase(w) ==
    LET lower == "abcdefghijklmnopqrstuvwxyz"
        upper == "ABCDEFGHIJKLMNOPQRSTUVWXYZ"
        up(ch) == IF \E k \in 1..26 : ch = SubSeq(lower, k, k)
                  THEN SubSeq(upper, (CHOOSE k \in 1..26 : ch = SubSeq(lower, k, k)),
                              (CHOOSE k \in 1..26 : ch = SubSeq(lower, k, k)))
                  ELSE ch
    IN  Concat([i \in 1..Len(w) |-> up(SubSeq(w, i, i))])

\* the keywords of the statements parsed here
Keywords == {"SELECT", "FROM", "AS"}

\* Token::make_word: an unquoted word is a keyword when its uppercase spelling
\* is in the keyword table
make_word(value, quote_style) ==
    [variant |-> "Word", value |-> value, quote_style |-> quote_style,
     keyword |-> IF quote_style = None /\ to_uppercase(value) \in Keywords
                 THEN to_uppercase(value) ELSE "NoKeyword"]

RECURSIVE peeking_take_while(_, _, _)
\* the offset after the longest run of characters of one kind from offset i on
peeking_take_while(s, i, kind) ==
    LET ch == CharAt(s, i)
        taken == CASE kind = "identifier_part" -> is_identifier_part(ch)
                   [] kind = "digit" -> ch \in Digits
                   [] kind = "whitespace" -> ch = " "
    IN  IF i < Len(s) /\ taken THEN peeking_take_while(s, i + 1, kind) ELSE i

RECURSIVE close_at(_, _, _)
\* consume until the matching close: the offset of the first close at or
\* after i, Len(s) when there is none
close_at(s, i, close) ==
    IF i >= Len(s) THEN Len(s)
    ELSE IF CharAt(s, i) = close THEN i
    ELSE close_at(s, i + 1, close)

\* the dialect taking every [ for the bracket of a subscript
is_proper_identifier_inside_quotes_never(s, i) == FALSE

\* RedshiftSqlDialect: the [ at offset i opens a delimited identifier when
\* the first character after it that is not blank starts an identifier;
\* otherwise it is the bracket of a subscript such as [0] or ['id']
is_proper_identifier_inside_quotes(s, i) ==
    LET j == peeking_take_while(s, i + 1, "whitespace")
    IN  j < Len(s) /\ is_identifier_start(CharAt(s, j))

RECURSIVE tokenize(_, _)
\* the tokens of s from offset i on; an Error token ends them
tokenize(s, i) ==
    IF i >= Len(s) THEN <<>>
    ELSE LET ch == CharAt(s, i)
         IN  CASE ch = " " -> <<[variant |-> "Whitespace"]>> \o tokenize(s, i + 1)
               [] is_identifier_start(ch) ->
                    LET e == peeking_take_while(s, i + 1, "identifier_part")
                    IN  <<make_word(SubSeq(s, i + 1, e), None)>> \o tokenize(s, e)
               [] ch \in Digits ->
                    LET e == peeking_take_while(s, i + 1, "digit")
                    IN  <<[variant |-> "Number", text |-> SubSeq(s, i + 1, e)]>>
                        \o tokenize(s, e)
               [] ch = "'" ->
                    LET e == close_at(s, i + 1, "'")
                    IN  IF e >= Len(s) THEN <<[variant |-> "Error"]>>
                        ELSE <<[variant |-> "SingleQuotedString",
                                text |-> SubSeq(s, i + 2, e)]>> \o tokenize(s, e + 1)
               [] ch = "\"" \/ (ch = "[" /\ is_proper_identifier_inside_quotes(s, i)) ->
                    LET e == close_at(s, i + 1, IF ch = "[" THEN "]" ELSE ch)
                    IN  IF e >= Len(s) THEN <<[variant |-> "Error"]>>
                        ELSE <<make_word(SubSeq(s, i + 2, e), Some(ch))>>
                             \o tokenize(s, e + 1)
               [] ch = "[" /\ ~is_proper_identifier_inside_quotes(s, i) ->
                    <<[variant |-> "LBracket"]>> \o tokenize(s, i + 1)
               [] ch = "]" -> <<[variant |-> "RBracket"]>> \o tokenize(s, i + 1)
               [] ch = "." -> <<[variant |-> "Period"]>> \o tokenize(s, i + 1)
               [] ch = "*" -> <<[variant |-> "Mul"]>> \o tokenize(s, i + 1)
               [] OTHER -> <<[variant |-> "Error"]>>

----------------------------------------------------------------------------
\* Expr::Identifier for one ident, Expr::CompoundIdentifier for a dotted path
ExprOfIdents(idents) ==
    IF Len(idents) = 1 THEN [variant |-> "Identifier", ident |-> idents[1]]
    ELSE [variant |-> "CompoundIdentifier", idents |-> idents]

\* a word that can be an identifier: quoted, or not a keyword
is_identifier_word(t) ==
    Len(t) >= 1 /\ t[1].variant = "Word" /\ t[1].keyword = "NoKeyword"

RECURSIVE parse_identifiers(_)
\* ident { . ident }: the idents and the tokens left; a period is taken only
\* with the identifier that follows it
parse_identifiers(t) ==
    IF ~is_identifier_word(t) THEN [idents |-> <<>>, rest |-> t]
    ELSE LET ident == [value |-> t[1].value, quote_style |-> t[1].quote_style]
         IN  IF Len(t) >= 3 /\ t[2].variant = "Period"
                /\ is_identifier_word(SubSeq(t, 3, Len(t)))
             THEN LET r == parse_identifiers(SubSeq(t, 3, Len(t)))
                  IN  [idents |-> <<ident>> \o r.idents, rest |-> r.rest]
             ELSE [idents |-> <<ident>>, rest |-> Tail(t)]

RECURSIVE parse_json_path_brackets_only(_)
\* the path ending at the first accessor that is not a bracket
parse_json_path_brackets_only(t) ==
    IF Len(t) >= 3 /\ t[1].variant = "LBracket"
       /\ t[2].variant \in {"Number", "SingleQuotedString"} /\ t[3].variant = "RBracket"
    THEN LET key == IF t[2].variant = "Number"
                    THEN [variant |-> "Number", n |-> t[2].text, long |-> FALSE]
                    ELSE [variant |-> "SingleQuotedString", s |-> t[2].text]
             r == parse_json_path_brackets_only(SubSeq(t, 4, Len(t)))
         IN  [path |-> <<[variant |-> "Bracket", key |-> key]>> \o r.path, rest |-> r.rest]
    ELSE [path |-> <<>>, rest |-> t]

RECURSIVE parse_json_path(_)
\* the accessors that follow a name: [ number or string ] and . key, in
\* source order, as long as there is one; and the tokens left
parse_json_path(t) ==
    IF Len(t) >= 3 /\ t[1].variant = "LBracket"
       /\ t[2].variant \in {"Number", "SingleQuotedString"} /\ t[3].variant = "RBracket"
    THEN LET key == IF t[2].variant = "Number"
                    THEN [variant |-> "Number", n |-> t[2].text, long |-> FALSE]
                    ELSE [variant |-> "SingleQuotedString", s |-> t[2].text]
             r == parse_json_path(SubSeq(t, 4, Len(t)))
         IN  [path |-> <<[variant |-> "Bracket", key |-> key]>> \o r.path, rest |-> r.rest]
    ELSE IF Len(t) >= 2 /\ t[1].variant = "Period" /\ t[2].variant = "Word"
    THEN LET r == parse_json_path(SubSeq(t, 3, Len(t)))
         IN  [path |-> <<[variant |-> "Dot", key |-> t[2].value,
                          quoted |-> t[2].quote_style = Some("\"")]>> \o r.path,
              rest |-> r.rest]
    ELSE [path |-> <<>>, rest |-> t]

\* a projection item: * or an expression made of a dotted name and, when a
\* bracket follows it, a JSON path
parse_select_item(t) ==
    IF Len(t) >= 1 /\ t[1].variant = "Mul"
    THEN [ok |-> TRUE, val |-> [variant |-> "Wildcard"], rest |-> Tail(t)]
    ELSE LET n == parse_identifiers(t)
             p == parse_json_path(n.rest)
         IN  IF n.idents = <<>> THEN [ok |-> FALSE, rest |-> t]
             ELSE IF Len(n.rest) >= 1 /\ n.rest[1].variant = "LBracket"
             THEN [ok |-> TRUE,
                   val |-> [variant |-> "UnnamedExpr",
                            expr |-> [variant |-> "JsonAccess",
                                      value |-> ExprOfIdents(n.idents),
                                      path |-> [path |-> p.path]]],
                   rest |-> p.rest]
             ELSE [ok |-> TRUE,
                   val |-> [variant |-> "UnnamedExpr", expr |-> ExprOfIdents(n.idents)],
                   rest |-> n.rest]

\* the table factor that keeps the JSON path out of the table
parse_table_factor_without_path(t) ==
    LET n == parse_identifiers(t)
        p == parse_json_path(n.rest)
        has_alias == Len(p.rest) >= 2 /\ p.rest[1].variant = "Word"
                     /\ p.rest[1].keyword = "AS" /\ is_identifier_word(Tail(p.rest))
    IN  IF n.idents = <<>> THEN [ok |-> FALSE, rest |-> t]
        ELSE [ok |-> TRUE,
              val |-> [variant |-> "Table",
                       name |-> n.idents,
                       alias |-> IF has_alias
                                 THEN Some([name |-> [value |-> p.rest[2].value,
                                                      quote_style |-> p.rest[2].quote_style],
                                            columns |-> <<>>])
                                 ELSE None,
                       args |-> None,
                       with_hints |-> <<>>,
                       version |-> None,
                       partitions |-> <<>>,
                       with_ordinality |-> FALSE,
                       partiql |-> None],
              rest |-> IF has_alias THEN SubSeq(p.rest, 3, Len(p.rest)) ELSE p.rest]

\* a table factor: a name, the JSON path that a bracket after it starts, and
\* an alias after AS
parse_table_factor(t) ==
    LET n == parse_identifiers(t)
        has_path == Len(n.rest) >= 1 /\ n.rest[1].variant = "LBracket"
        p == parse_json_path(n.rest)
        after == IF has_path THEN p.rest ELSE n.rest
        has_alias == Len(after) >= 2 /\ after[1].variant = "Word"
                     /\ after[1].keyword = "AS" /\ is_identifier_word(Tail(after))
    IN  IF n.idents = <<>> THEN [ok |-> FALSE, rest |-> t]
        ELSE [ok |-> TRUE,
              val |-> [variant |-> "Table",
                       name |-> n.idents,
                       alias |-> IF has_alias
                                 THEN Some([name |-> [value |-> after[2].value,
                                                      quote_style |-> after[2].quote_style],
                                            columns |-> <<>>])
                                 ELSE None,
                       args |-> None,
                       with_hints |-> <<>>,
                       version |-> None,
                       partitions |-> <<>>,
                       with_ordinality |-> FALSE,
                       partiql |-> IF has_path THEN Some([path |-> p.path]) ELSE None],
              rest |-> IF has_alias THEN SubSeq(after, 3, Len(after)) ELSE after]

\* parse_sql_statements, for one SELECT <item> FROM <table factor>: the
\* parser skips the whitespace tokens and fails on the first token it does
\* not expect
parse_sql_statements(text) ==
    LET all == tokenize(text, 0)
        t == SelectSeq(all, LAMBDA k : k.variant # "Whitespace")
        is_keyword(tokens, kw) ==
            Len(tokens) >= 1 /\ tokens[1].variant = "Word" /\ tokens[1].keyword = kw
        item == parse_select_item(Tail(t))
        table == parse_table_factor(Tail(item.rest))
    IN  IF \E i \in 1..Len(all) : all[i].variant = "Error"
        THEN Err([variant |-> "TokenizerError"])
        ELSE IF ~is_keyword(t, "SELECT") THEN Err(ParserError("Expected: an SQL statement"))
        ELSE IF ~item.ok THEN Err(ParserError("Expected: an expression"))
        ELSE IF ~is_keyword(item.rest, "FROM") THEN Err(ParserError("Expected: end of statement"))
        ELSE IF ~table.ok THEN Err(ParserError("Expected: identifier"))
        ELSE IF table.rest # <<>> THEN Err(ParserError("Expected: end of statement"))
        ELSE Ok([variant |-> "Select",
                 projection |-> <<item.val>>,
                 from |-> <<[relation |-> table.val, joins |-> <<>>]>>])

\* impl Display for JsonPath: [key] for a bracket, .key for a dot
JsonPathDisplay(p) ==
    Concat([i \in 1..Len(p.path) |->
        IF p.path[i].variant = "Bracket"
        THEN "[" \o (IF p.path[i].key.variant = "Number" THEN p.path[i].key.n
                     ELSE "'" \o escape_single_quote_string(p.path[i].key.s) \o "'")
             \o "]"
        ELSE "." \o (IF p.path[i].quoted THEN "\"" \o p.path[i].key \o "\""
                     ELSE p.path[i].key)])

\* impl Display for Select, SelectItem, Expr and TableFactor, for the
\* statements parse_sql_statements gives
SelectDisplay(s) ==
    LET expr(e) ==
            CASE e.variant = "Identifier" -> IdentDisplay(e.ident)
              [] e.variant = "CompoundIdentifier" -> ObjectNameDisplay(e.idents)
        item(i) ==
            CASE i.variant = "Wildcard" -> "*"
              [] i.variant = "UnnamedExpr" /\ i.expr.variant = "JsonAccess" ->
                    expr(i.expr.value) \o JsonPathDisplay(i.expr.path)
              [] OTHER -> expr(i.expr)
        table(f) ==
            ObjectNameDisplay(f.name)
            \o (IF is_some(f.partiql) THEN JsonPathDisplay(unwrap(f.partiql)) ELSE "")
            \o (IF is_some(f.alias) THEN " AS " \o IdentDisplay(unwrap(f.alias).name) ELSE "")
    IN  "SELECT " \o display_comma_separated([i \in 1..Len(s.projection) |-> item(s.projection[i])])
        \o " FROM "
        \o display_comma_separated([i \in 1..Len(s.from) |-> table(s.from[i].relation)])

----------------------------------------------------------------------------
(* The statements of tests/sqlparser_redshift.rs and the parser's client.  *)

\* TableFactor::Table with the fields the tests leave empty
Table(name, alias, partiql) ==
    [variant |-> "Table", name |-> name, alias |-> alias, args |-> None,
     with_hints |-> <<>>, version |-> None, partitions |-> <<>>,
     with_ordinality |-> FALSE, partiql |-> partiql]

\* a Select of one projection item and one table without joins
Select(item, relation) ==
    [variant |-> "Select", projection |-> <<item>>,
     from |-> <<[relation |-> relation, joins |-> <<>>]>>]

\* JsonPathElem::Bracket of a number or of a string, JsonPathElem::Dot
Bracket(n) == [variant |-> "Bracket", key |-> [variant |-> "Number", n |-> n, long |-> FALSE]]
BracketString(s) == [variant |-> "Bracket", key |-> [variant |-> "SingleQuotedString", s |-> s]]
Dot(key) == [variant |-> "Dot", key |-> key, quoted |-> FALSE]

\* the JSON paths of at most MaxPath accessors from a set, a bracket first
JsonPaths(brackets, dots) ==
    {[path |-> p] : p \in UNION {{q \in [1..n -> brackets \cup dots] : q[1] \in brackets}
                                 : n \in 1..MaxPath}}

\* the statements the tests expect, and those with other paths and names
Selects ==
    LET col1 == Ident_with_quote("[", "col1")
        bracketed == <<Ident_with_quote("[", "test_schema"),
                       Ident_with_quote("[", "test_table")>>
        lineitem == Table(<<Ident_new("customer_orders_lineitem")>>, None, None)
        values == {ExprOfIdents(<<Ident_new("cust"), Ident_new("c_orders")>>),
                   ExprOfIdents(<<col1>>)}
        names == { <<Ident_new("src")>>,
                   <<Ident_new("src"), Ident_new("a"), Ident_new("b")>>,
                   bracketed }
        aliases == {None, Some([name |-> Ident_new("a"), columns |-> <<>>])}
    IN  {Select([variant |-> "UnnamedExpr", expr |-> e], r) :
            e \in values, r \in {lineitem, Table(bracketed, None, None)}}
        \cup
        {Select([variant |-> "UnnamedExpr",
                 expr |-> [variant |-> "JsonAccess", value |-> v, path |-> p]], lineitem) :
            v \in values,
            p \in JsonPaths({Bracket("0"), BracketString("id")}, {Dot("o_orderkey")})}
        \cup
        {Select([variant |-> "Wildcard"], Table(n, a, p)) :
            n \in names, a \in aliases,
            p \in {None} \cup {Some(q) : q \in JsonPaths({Bracket("0"), Bracket("1")},
                                                         {Dot("a"), Dot("b")})}}

\* texts no statement was written from: blanks inside brackets, a subscript
\* that is not closed or has no name, a name ending in a period, a string
\* that is not closed, another statement
OtherSources ==
    { "SELECT [   col1  ] FROM [  test_schema].[ test_table]",
      "SELECT * FROM src[0",
      "SELECT * FROM [0]",
      "SELECT a. FROM b",
      "SELECT c['id FROM t",
      "COMMIT" }

\* parse_sql_statements(source)
Parse ==
    /\ parsed = None
    /\ parsed' = Some(parse_sql_statements(source))
    /\ UNCHANGED <<source, expected, serialized>>
    /\ UNCHANGED builderVars
    /\ UNCHANGED renderVars
    /\ UNCHANGED tokenizerVars

\* to_string() of the statement that was parsed
Serialize ==
    /\ is_some(parsed) /\ unwrap(parsed).ok
    /\ serialized = None
    /\ serialized' = Some(SelectDisplay(unwrap(parsed).val))
    /\ UNCHANGED <<source, expected, parsed>>
    /\ UNCHANGED builderVars
    /\ UNCHANGED renderVars
    /\ UNCHANGED tokenizerVars

----------------------------------------------------------------------------
(* The builder's client: new, setters, build, to_string, try_from.         *)

SourceFields == {"columns", "query", "like", "clone"}
\* what new() gives every field but name
DefaultBuilder == new(<<>>)
OtherFields == (DOMAIN DefaultBuilder) \ (SourceFields \cup {"name"})

NonDefaultOthers(b) == {f \in OtherFields : b[f] # DefaultBuilder[f]}

CallSetter ==
    /\ pc = "setting"
    /\ \E name \in DOMAIN SetterField : \E v \in SetterArgs[name] :
            /\ Cardinality(NonDefaultOthers(setter(builder, name, v))) <= MaxOther
            /\ builder' = setter(builder, name, v)
    /\ UNCHANGED <<stmt, result, sql, pc>>
    /\ UNCHANGED renderVars
    /\ UNCHANGED tokenizerVars
    /\ UNCHANGED parserVars

Build ==
    /\ pc = "setting"
    /\ stmt' = Some(build(builder))
    /\ pc' = "built"
    /\ UNCHANGED <<builder, result, sql>>
    /\ UNCHANGED renderVars
    /\ UNCHANGED tokenizerVars
    /\ UNCHANGED parserVars

\* a statement that did not come out of build(), as in test_from_invalid_statement;
\* it owes nothing to the builder, so it is given while the builder is still fresh
GivenStatement ==
    /\ pc = "setting"
    /\ builder \in {new(n) : n \in TableNames}
    /\ \E s \in OtherStatements : stmt' = Some(s)
    /\ pc' = "built"
    /\ UNCHANGED <<builder, result, sql>>
    /\ UNCHANGED renderVars
    /\ UNCHANGED tokenizerVars
    /\ UNCHANGED parserVars

to_string ==
    /\ pc = "built"
    /\ sql' = Some(StatementDisplay(unwrap(stmt)))
    /\ UNCHANGED <<builder, stmt, result, pc>>
    /\ UNCHANGED renderVars
    /\ UNCHANGED tokenizerVars
    /\ UNCHANGED parserVars

TryFrom ==
    /\ pc = "built"
    /\ result' = Some(try_from(unwrap(stmt)))
    /\ pc' = "converted"
    /\ UNCHANGED <<builder, stmt, sql>>
    /\ UNCHANGED renderVars
    /\ UNCHANGED tokenizerVars
    /\ UNCHANGED parserVars

\* the client goes on modifying the builder it got back
Resume ==
    /\ pc = "converted"
    /\ unwrap(result).ok
    /\ builder' = unwrap(result).val
    /\ stmt' = None
    /\ result' = None
    /\ sql' = None
    /\ pc' = "setting"
    /\ UNCHANGED renderVars
    /\ UNCHANGED tokenizerVars
    /\ UNCHANGED parserVars

BuilderInit ==
    /\ \E name \in TableNames : builder = new(name)
    /\ stmt = None
    /\ result = None
    /\ sql = None
    /\ pc = "setting"

RenderInit == node = None /\ out = None

TokenizerInit == input = <<>> /\ pos = 0 /\ ret = None /\ spans = <<>> /\ calls = 0

ParserInit == source = "" /\ expected = None /\ parsed = None /\ serialized = None

Init ==
    /\ BuilderInit
    /\ RenderInit
    /\ TokenizerInit
    /\ ParserInit

\* the tokenizer is handed any source of at most MaxLen characters
InitTokenizer ==
    /\ BuilderInit
    /\ RenderInit
    /\ input \in Inputs /\ pos = 0 /\ ret = None /\ spans = <<>> /\ calls = 0
    /\ ParserInit

Next ==
    \/ CallSetter
    \/ Build
    \/ GivenStatement
    \/ to_string
    \/ TryFrom
    \/ Resume

Spec == Init /\ [][Next]_vars

SpecRender == Init /\ [][NextRender]_vars

NextTokenizer == NextToken

SpecTokenizer == InitTokenizer /\ [][NextTokenizer]_vars

\* the client that keeps calling next_token for as long as a call changes
\* anything
SpecTokenizerFair ==
    InitTokenizer /\ [][NextTokenizer]_vars /\ WF_vars(NextTokenizer)

\* the parser is handed the text of a statement, or one of the other texts
InitParser ==
    /\ BuilderInit
    /\ RenderInit
    /\ TokenizerInit
    /\ \/ \E s \in Selects : source = SelectDisplay(s) /\ expected = Some(s)
       \/ source \in OtherSources /\ expected = None
    /\ parsed = None
    /\ serialized = None

NextParser == Parse \/ Serialize

SpecParser == InitParser /\ [][NextParser]_vars

----------------------------------------------------------------------------
(* Properties.                                                             *)

\* the schema sources a builder or a CreateTable has populated
PopulatedSources(b) ==
    {f \in SourceFields : IF f = "columns" THEN Len(b.columns) # 0 ELSE is_some(b[f])}

IsBuiltCreateTable == is_some(stmt) /\ unwrap(stmt).variant = "CreateTable"

StartsWith(s, prefix) == Len(s) >= Len(prefix) /\ SubSeq(s, 1, Len(prefix)) = prefix
EndsWith(s, suffix) ==
    Len(s) >= Len(suffix) /\ SubSeq(s, Len(s) - Len(suffix) + 1, Len(s)) = suffix
Contains(s, sub) ==
    \E i \in 1..(Len(s) - Len(sub) + 1) : SubSeq(s, i, i + Len(sub) - 1) = sub

Formatted(type) == is_some(node) /\ unwrap(node).type = type

\* C1: on every builder that setter calls can reach, validate_schema_info() is
\* true exactly when one, and only one, of columns (non-empty), query, like
\* and clone is populated; it is false for none and for two, three or four.
C1_ValidateIffExactlyOneSource ==
    validate_schema_info(builder) <=> (Cardinality(PopulatedSources(builder)) = 1)

C1_AllFourSourcesRejected ==
    /\ pc = "setting"
    /\ PopulatedSources(builder) = SourceFields
    /\ ~validate_schema_info(builder)

C3_TryFromBuildRoundTrip ==
    (pc = "converted" /\ IsBuiltCreateTable) => unwrap(result) = Ok(builder)

C3_RoundTripOfVolatileTable ==
    /\ pc = "converted"
    /\ IsBuiltCreateTable
    /\ builder.volatile
    /\ Len(builder.columns) # 0
    /\ unwrap(result) = Ok(builder)

\* C4: try_from of a statement that is not a CreateTable returns
\* Err(ParserError(m)) with m = "Expected create table statement, but
\* received: " followed by the statement's text (COMMIT for the plain Commit)
\* and no builder; try_from of a CreateTable never returns Err.
C4_TryFromRejectsOtherStatements ==
    pc = "converted" =>
        IF IsBuiltCreateTable THEN unwrap(result).ok
        ELSE /\ ~unwrap(result).ok
             /\ unwrap(result) =
                    Err(ParserError("Expected create table statement, but received: "
                                    \o StatementDisplay(unwrap(stmt))))
             /\ (unwrap(stmt) = Commit(FALSE, FALSE, None) =>
                    unwrap(result).err.msg
                        = "Expected create table statement, but received: COMMIT")

C4_CommitRejected ==
    /\ pc = "converted"
    /\ unwrap(stmt) = Commit(FALSE, FALSE, None)
    /\ unwrap(result)
         = Err(ParserError("Expected create table statement, but received: COMMIT"))

\* the builder of the documentation example
DocExampleBuilder ==
    setter(setter(new(<<Ident_new("table_name")>>), "if_not_exists", TRUE),
           "columns", <<ColumnDef(Ident_new("c1"), "Int", <<>>)>>)

\* C5: new(table_name).if_not_exists(true).columns([c1 INT]) has if_not_exists
\* set, and the statement built from it serializes to exactly
\* CREATE TABLE IF NOT EXISTS table_name (c1 INT), the column as "c1 INT".
C5_DocExampleSerialization ==
    (builder = DocExampleBuilder /\ IsBuiltCreateTable /\ is_some(sql)) =>
        /\ builder.if_not_exists
        /\ unwrap(sql) = "CREATE TABLE IF NOT EXISTS table_name (c1 INT)"
        /\ ColumnDef_fmt(builder.columns[1]) = Returned("c1 INT")

C5_DocExampleSerialized ==
    /\ builder = DocExampleBuilder
    /\ IsBuiltCreateTable
    /\ sql = Some("CREATE TABLE IF NOT EXISTS table_name (c1 INT)")

\* C6: DropConstraint renders as DROP CONSTRAINT, then IF EXISTS exactly when
\* if_exists, then the name, then RESTRICT or CASCADE exactly when
\* drop_behavior says so; {true, c, Cascade} gives
\* DROP CONSTRAINT IF EXISTS c CASCADE.
C6_DropConstraintRendering ==
    (Formatted("AlterTableOperation") /\ unwrap(node).value.variant = "DropConstraint") =>
        LET o == unwrap(node).value
            t == unwrap(out).text
            head == "DROP CONSTRAINT "
                    \o (IF o.if_exists THEN "IF EXISTS " ELSE "")
                    \o IdentDisplay(o.name)
        IN  /\ ~unwrap(out).panicked
            /\ StartsWith(t, head)
            /\ o.if_exists <=> StartsWith(t, "DROP CONSTRAINT IF EXISTS ")
            /\ o.drop_behavior = None => t = head
            /\ o.drop_behavior = Some("Restrict") => t = head \o " RESTRICT"
            /\ o.drop_behavior = Some("Cascade") => t = head \o " CASCADE"
            /\ (o.if_exists /\ o.name = IdentC /\ o.drop_behavior = Some("Cascade"))
                    => t = "DROP CONSTRAINT IF EXISTS c CASCADE"

C6_DropConstraintIfExistsCascade ==
    /\ Formatted("AlterTableOperation")
    /\ unwrap(node).value =
         [variant |-> "DropConstraint", if_exists |-> TRUE, name |-> IdentC,
          drop_behavior |-> Some("Cascade")]
    /\ unwrap(out) = Returned("DROP CONSTRAINT IF EXISTS c CASCADE")

\* C7: formatting any ColumnOption value writes its fragment and returns; it
\* never panics.
C7_ColumnOptionRenderingTotal ==
    Formatted("ColumnOption") => ~unwrap(out).panicked

\* the 0-based (line, column) of the k-th character of chars
PositionOf(chars, k) ==
    Position_new(Cardinality({i \in 1..(k - 1) : chars[i] = "\n"}),
                 Cardinality({i \in 1..(k - 1) : \A j \in i..(k - 1) : chars[j] # "\n"}))

\* C8: the UnexpectedChar that next_token returns carries the position (line,
\* column) of the offending character, the last one taken from the stream.
C8_ErrorCarriesPositionOfOffender ==
    (is_some(ret) /\ ~unwrap(ret).ok) =>
        /\ unwrap(ret).err.ch = input[pos]
        /\ unwrap(ret).err.position = PositionOf(input, pos)

\* C9: ColumnOption::Comment, IndexOption::Comment and the TYPE and URL of
\* CreateConnector put their string between single quotes with every
\* embedded single quote doubled.
C9_EmbeddedQuotesDoubled ==
    /\ (Formatted("ColumnOption") /\ unwrap(node).value.variant = "Comment") =>
            unwrap(out).text
                = "COMMENT '" \o escape_single_quote_string(unwrap(node).value.v) \o "'"
    /\ (Formatted("IndexOption") /\ unwrap(node).value.variant = "Comment") =>
            unwrap(out).text
                = "COMMENT '" \o escape_single_quote_string(unwrap(node).value.s) \o "'"
    /\ Formatted("CreateConnector") =>
            LET c == unwrap(node).value
            IN  /\ is_some(c.connector_type) =>
                        Contains(unwrap(out).text,
                                 " TYPE '" \o escape_single_quote_string(unwrap(c.connector_type))
                                 \o "'")
                /\ is_some(c.url) =>
                        Contains(unwrap(out).text,
                                 " URL '" \o escape_single_quote_string(unwrap(c.url)) \o "'")

\* C10: the rendering of a TableConstraint (Unique, PrimaryKey, ForeignKey) or
\* of a ColumnOption (Unique, ForeignKey) never ends with a space, whatever
\* characteristics is: None, or Some with any subset of its settings.
C10_NoTrailingSpaceFromCharacteristics ==
    (\/ Formatted("TableConstraint")
        /\ unwrap(node).value.variant \in {"Unique", "PrimaryKey", "ForeignKey"}
     \/ Formatted("ColumnOption")
        /\ unwrap(node).value.variant \in {"Unique", "ForeignKey"})
    => ~EndsWith(unwrap(out).text, " ")

\* C11: any two distinct AlterColumnOperation values (differing in variant,
\* had_set, using, generated_as -- None, Always, ByDefault, ExpStored -- or
\* sequence_options) render to distinct text: the text that was written
\* belongs to the formatted operation and to no other.
C11_AlterColumnRenderingInjective ==
    Formatted("AlterColumnOperation") =>
        \A o \in AlterColumnOperations :
            AlterColumnOperation_fmt(o) = unwrap(out).text => o = unwrap(node).value

\* C12: ReplicaIdentity renders as REPLICA IDENTITY followed by DEFAULT,
\* USING INDEX <index_name>, FULL or NOTHING for the variants Default,
\* Index(name), Full and None.
C12_ReplicaIdentityDocumentedForms ==
    (Formatted("AlterTableOperation") /\ unwrap(node).value.variant = "ReplicaIdentity") =>
        LET identity == unwrap(node).value.identity
            t == unwrap(out).text
        IN  /\ identity.variant = "Default" => t = "REPLICA IDENTITY DEFAULT"
            /\ identity.variant = "Index" =>
                    t = "REPLICA IDENTITY USING INDEX " \o IdentDisplay(identity.idx)
            /\ identity.variant = "Full" => t = "REPLICA IDENTITY FULL"
            /\ identity.variant = "None" => t = "REPLICA IDENTITY NOTHING"

\* the source text a token of the generic tokenizer stands for
TokenText(t) ==
    CASE t.variant = "Whitespace" -> t.ch
      [] t.variant = "Literal" -> t.s
      [] t.variant = "Plus" -> "+"
      [] t.variant = "Minus" -> "-"
      [] t.variant = "Mult" -> "*"
      [] t.variant = "Divide" -> "/"

\* the characters next_token accepts as (the start of) a token
TokenChars == {" ", "\t", "\n", "+", "-", "*", "/"} \cup Digits

\* every returned token took at least one character, which is its text, and
\* the range of each token ends at or before the start of the next one
TokenRangesOrdered ==
    /\ \A i \in 1..Len(spans) :
            /\ spans[i].start < spans[i].end
            /\ spans[i].end <= pos
            /\ TokenText(spans[i].token)
                    = Concat(SubSeq(input, spans[i].start + 1, spans[i].end))
    /\ \A i \in 1..(Len(spans) - 1) : spans[i].end <= spans[i + 1].start

\* C13 as stated: the tokens of successive calls take consecutive,
\* non-overlapping ranges in source order, each of at least one character,
\* and the ranges of all tokens concatenate to a prefix of the input.
C13_TokenRangesTileAPrefix ==
    /\ TokenRangesOrdered
    /\ Len(spans) > 0 => spans[1].start = 0
    /\ \A i \in 1..(Len(spans) - 1) : spans[i].end = spans[i + 1].start

\* C13 amended: the ranges are ordered, disjoint and non-empty, and together
\* with the single characters taken by the calls that returned
\* UnexpectedChar they tile the prefix of the input taken so far.
C13_TokenRangesOrderedAndDisjoint ==
    /\ TokenRangesOrdered
    /\ \A k \in 1..pos :
            LET covering == {i \in 1..Len(spans) : spans[i].start < k /\ k <= spans[i].end}
            IN  IF input[k] \in TokenChars
                THEN Cardinality(covering) = 1
                ELSE covering = {}

\* two tokens around a rejected character: "1a+" gives Literal("1"), an
\* error on 'a', then Plus
C13_TokensAroundAnError ==
    /\ input = <<"1", "a", "+">>
    /\ pos = 3
    /\ spans = << [token |-> [variant |-> "Literal", s |-> "1"], start |-> 0, end |-> 1],
                  [token |-> [variant |-> "Plus"], start |-> 2, end |-> 3] >>

\* C14: a ViewColumnDef writes its name, its data type after one space when
\* it has one, and then, after one space, its options in order: with ", "
\* between consecutive options when they are CommaSeparated, with one space
\* between them when they are SpaceSeparated; it writes nothing after the
\* name and data type when options is None.
C14_ViewColumnOptionSeparators ==
    Formatted("ViewColumnDef") =>
        LET c == unwrap(node).value
            t == unwrap(out).text
            head == IF is_some(c.data_type)
                    THEN IdentDisplay(c.name) \o " " \o DataTypeDisplay(unwrap(c.data_type))
                    ELSE IdentDisplay(c.name)
        IN  /\ ~unwrap(out).panicked
            /\ c.options = None => t = head
            /\ is_some(c.options) =>
                LET l == unwrap(c.options).options
                    between == IF unwrap(c.options).variant = "CommaSeparated"
                               THEN ", " ELSE " "
                    rest == Concat([i \in 1..Len(l) |->
                                (IF i = 1 THEN "" ELSE between) \o ColumnOption_fmt(l[i]).text])
                IN  t = head \o " " \o rest

\* a view column with two comma-separated options, and the same with the
\* options space-separated, are told apart by their text
C14_CommaSeparatedOptionsRendered ==
    /\ Formatted("ViewColumnDef")
    /\ unwrap(node).value =
         [name |-> IdentC, data_type |-> Some("Int"),
          options |-> Some([variant |-> "CommaSeparated",
                            options |-> <<[variant |-> "NotNull"],
                                          [variant |-> "Comment", v |-> "it's"]>>])]
    /\ unwrap(out) = Returned("c INT NOT NULL, COMMENT 'it''s'")

\* C18: build() puts each of the 44 builder fields into the CreateTable field
\* of the same name, try_from puts each CreateTable field into the builder
\* field of the same name (volatile and iceberg included, no two fields
\* exchanged), and try_from(s).unwrap().build() gives s back.
C18_BothConversionsKeepEveryField ==
    /\ IsBuiltCreateTable =>
            /\ DOMAIN unwrap(stmt).ct = DOMAIN builder
            /\ Cardinality(DOMAIN builder) = 44
            /\ \A f \in DOMAIN builder : unwrap(stmt).ct[f] = builder[f]
    /\ (pc = "converted" /\ IsBuiltCreateTable) =>
            /\ unwrap(result).ok
            /\ DOMAIN unwrap(result).val = DOMAIN unwrap(stmt).ct
            /\ \A f \in DOMAIN unwrap(stmt).ct :
                    unwrap(result).val[f] = unwrap(stmt).ct[f]
            /\ build(unwrap(result).val) = unwrap(stmt)

\* an iceberg table LIKE another one went through build() and try_from
C18_IcebergLikeTableConverted ==
    /\ pc = "converted"
    /\ IsBuiltCreateTable
    /\ unwrap(stmt).ct.iceberg /\ ~unwrap(stmt).ct.volatile
    /\ is_some(unwrap(stmt).ct.like) /\ ~is_some(unwrap(stmt).ct.clone)
    /\ unwrap(result).val.iceberg
    /\ is_some(unwrap(result).val.like)

\* the field a setter is named after: its own name, but for the two setters
\* whose field name is taken by a trait method or differs in the struct
FieldNamedBy(name) ==
    CASE name = "clone_clause" -> "clone"
      [] name = "comment_after_column_def" -> "comment"
      [] OTHER -> name

\* C19: on every builder the client can call a setter on, each setter assigns its
\* argument to the one field it is named after (clone_clause to clone,
\* comment_after_column_def to comment) and leaves every other field, name
\* included, as it was; no two setters write the same field, no setter writes
\* name, and two setters of different fields give the same builder in either
\* order (tried for every pair of calls on the builders that have only schema
\* sources set).
C19_SetterWritesOnlyItsField ==
    /\ \A n1, n2 \in DOMAIN SetterField : FieldNamedBy(n1) = FieldNamedBy(n2) => n1 = n2
    /\ \A name \in DOMAIN SetterField : FieldNamedBy(name) \in DOMAIN builder \ {"name"}
    /\ pc = "setting" =>
            \A name \in DOMAIN SetterField : \A v \in SetterArgs[name] :
                LET after == setter(builder, name, v)
                IN  /\ DOMAIN after = DOMAIN builder
                    /\ after[FieldNamedBy(name)] = v
                    /\ \A f \in DOMAIN builder \ {FieldNamedBy(name)} :
                            after[f] = builder[f]
                    /\ NonDefaultOthers(builder) = {} =>
                            \A other \in DOMAIN SetterField \ {name} :
                            \A w \in SetterArgs[other] :
                                setter(after, other, w)
                                    = setter(setter(builder, other, w), name, v)

\* the builder holds what clone_clause and comment_after_column_def were
\* last given, in the fields clone and comment, under the name new() was given
C19_CloneAndCommentSet ==
    /\ pc = "setting"
    /\ builder.name = <<Ident_new("table_name")>>
    /\ builder.clone = Some(OtherTable)
    /\ builder.comment = Some("x")
    /\ builder.like = None

\* C20: a call that returns a token returns one of six shapes, decided by the
\* first character it takes: space, tab or newline gives Whitespace of that
\* one character; a digit gives Literal of the longest run of digits that
\* starts there, and the character after the run is still in the stream;
\* + - * / give Plus, Minus, Mult, Divide, each taking one character.
C20_SixMinimalTokenShapes ==
    (is_some(ret) /\ unwrap(ret).ok /\ is_some(unwrap(ret).val)) =>
        LET token == unwrap(unwrap(ret).val)
            start == spans[Len(spans)].start
            ch == input[start + 1]
        IN  /\ spans[Len(spans)].token = token
            /\ spans[Len(spans)].end = pos
            /\ token.variant \in {"Whitespace", "Literal", "Plus", "Minus", "Mult", "Divide"}
            /\ ch \in {" ", "\t", "\n"} <=> token.variant = "Whitespace"
            /\ token.variant = "Whitespace" => token.ch = ch /\ pos = start + 1
            /\ ch \in Digits <=> token.variant = "Literal"
            /\ token.variant = "Literal" =>
                    /\ token.s = Concat(SubSeq(input, start + 1, pos))
                    /\ \A k \in (start + 1)..pos : input[k] \in Digits
                    /\ pos < Len(input) => input[pos + 1] \notin Digits
            /\ ch = "+" <=> token.variant = "Plus"
            /\ ch = "-" <=> token.variant = "Minus"
            /\ ch = "*" <=> token.variant = "Mult"
            /\ ch = "/" <=> token.variant = "Divide"
            /\ token.variant \in {"Plus", "Minus", "Mult", "Divide"} =>
                    /\ token = [variant |-> token.variant]
                    /\ pos = start + 1

\* "19+" gives Literal("19") and leaves the + for the next call
C20_LiteralRunThenPlusLeft ==
    /\ input = <<"1", "9", "+">>
    /\ pos = 2
    /\ ret = Some(Ok(Some([variant |-> "Literal", s |-> "19"])))

\* C15: under Redshift, identifiers written in square brackets parse to
\* idents with quote_style Some('['): SELECT [col1] FROM
\* [test_schema].[test_table] gives the one projection Identifier(col1
\* quoted '[') and the one table named by the two bracket-quoted idents
\* test_schema, test_table, with no alias, no joins and no JSON path; and
\* the text of the parsed statement is the text that was parsed.
C15_BracketQuotedIdentifiers ==
    /\ (is_some(parsed) /\ is_some(expected)) => unwrap(parsed) = Ok(unwrap(expected))
    /\ (is_some(parsed) /\ source = "SELECT [col1] FROM [test_schema].[test_table]") =>
            unwrap(parsed) =
                Ok([variant |-> "Select",
                    projection |-> <<[variant |-> "UnnamedExpr",
                                      expr |-> [variant |-> "Identifier",
                                                ident |-> [value |-> "col1",
                                                           quote_style |-> Some("[")]]]>>,
                    from |-> <<[relation |->
                                  [variant |-> "Table",
                                   name |-> <<[value |-> "test_schema",
                                               quote_style |-> Some("[")],
                                              [value |-> "test_table",
                                               quote_style |-> Some("[")]>>,
                                   alias |-> None, args |-> None, with_hints |-> <<>>,
                                   version |-> None, partitions |-> <<>>,
                                   with_ordinality |-> FALSE, partiql |-> None],
                                joins |-> <<>>]>>])
    /\ is_some(serialized) => unwrap(serialized) = source

C15_BracketedSelectReproduced ==
    /\ source = "SELECT [col1] FROM [test_schema].[test_table]"
    /\ is_some(parsed) /\ unwrap(parsed).ok
    /\ unwrap(parsed).val.projection[1].expr.ident.quote_style = Some("[")
    /\ serialized = Some("SELECT [col1] FROM [test_schema].[test_table]")

\* C16: under Redshift, a dotted identifier followed by a bracket subscript
\* parses to JsonAccess whose value is the CompoundIdentifier of the idents
\* before the first bracket and whose path holds the accessors that follow,
\* in source order: cust.c_orders[0].o_orderkey gives the path
\* [Bracket(0), Dot(o_orderkey, unquoted)], cust.c_orders[0]['id'] gives
\* [Bracket(0), Bracket('id')]; the statement serializes back to the input.
C16_JsonAccessOfDottedIdentifier ==
    LET cust_c_orders ==
            [variant |-> "CompoundIdentifier",
             idents |-> <<[value |-> "cust", quote_style |-> None],
                          [value |-> "c_orders", quote_style |-> None]>>]
        number0 == [variant |-> "Bracket",
                    key |-> [variant |-> "Number", n |-> "0", long |-> FALSE]]
        projected == unwrap(parsed).val.projection
    IN  /\ (is_some(parsed) /\ is_some(expected)
            /\ unwrap(expected).projection[1].variant = "UnnamedExpr"
            /\ unwrap(expected).projection[1].expr.variant = "JsonAccess") =>
                /\ unwrap(parsed).ok
                /\ Len(projected) = 1
                /\ projected[1].expr.variant = "JsonAccess"
                /\ projected[1].expr.value = unwrap(expected).projection[1].expr.value
                /\ projected[1].expr.path = unwrap(expected).projection[1].expr.path
                /\ projected[1].expr.path.path[1].variant = "Bracket"
                /\ is_some(serialized) => unwrap(serialized) = source
        /\ (is_some(parsed)
            /\ source = "SELECT cust.c_orders[0].o_orderkey FROM customer_orders_lineitem") =>
                /\ unwrap(parsed).ok
                /\ projected =
                     <<[variant |-> "UnnamedExpr",
                        expr |-> [variant |-> "JsonAccess", value |-> cust_c_orders,
                                  path |-> [path |-> <<number0,
                                                       [variant |-> "Dot",
                                                        key |-> "o_orderkey",
                                                        quoted |-> FALSE]>>]]]>>
        /\ (is_some(parsed)
            /\ source = "SELECT cust.c_orders[0]['id'] FROM customer_orders_lineitem") =>
                /\ unwrap(parsed).ok
                /\ projected =
                     <<[variant |-> "UnnamedExpr",
                        expr |-> [variant |-> "JsonAccess", value |-> cust_c_orders,
                                  path |-> [path |-> <<number0,
                                                       [variant |-> "Bracket",
                                                        key |-> [variant |-> "SingleQuotedString",
                                                                 s |-> "id"]]>>]]]>>

C16_BracketThenDotPathParsed ==
    /\ source = "SELECT cust.c_orders[0].o_orderkey FROM customer_orders_lineitem"
    /\ is_some(parsed) /\ unwrap(parsed).ok
    /\ unwrap(parsed).val.projection[1].expr.variant = "JsonAccess"
    /\ Len(unwrap(parsed).val.projection[1].expr.path.path) = 2
    /\ serialized = Some(source)

\* C17: under Redshift, a FROM table name followed by a bracket subscript
\* parses to TableFactor::Table whose name is the idents before the first
\* bracket and whose partiql path holds every accessor that follows, in
\* source order: src[0].a AS a gives name src, alias a and the path
\* [Bracket(0), Dot(a)]; src[0].a[1].b gives four path elements; the purely
\* dotted src.a.b gives a three-part name and partiql None.
C17_PartiqlPathOfTable ==
    LET relation == unwrap(parsed).val.from[1].relation
        src == <<[value |-> "src", quote_style |-> None]>>
        number(n) == [variant |-> "Bracket",
                      key |-> [variant |-> "Number", n |-> n, long |-> FALSE]]
        dot(k) == [variant |-> "Dot", key |-> k, quoted |-> FALSE]
    IN  /\ (is_some(parsed) /\ is_some(expected)
            /\ unwrap(expected).projection[1].variant = "Wildcard") =>
                /\ unwrap(parsed).ok
                /\ Len(unwrap(parsed).val.from) = 1
                /\ relation.variant = "Table"
                /\ relation.name = unwrap(expected).from[1].relation.name
                /\ relation.partiql = unwrap(expected).from[1].relation.partiql
                /\ relation.alias = unwrap(expected).from[1].relation.alias
                /\ is_some(relation.partiql) <=>
                        (Contains(source, "[0]") \/ Contains(source, "[1]"))
        /\ (is_some(parsed) /\ source = "SELECT * FROM src[0].a AS a") =>
                /\ unwrap(parsed).ok
                /\ relation.name = src
                /\ relation.alias = Some([name |-> [value |-> "a", quote_style |-> None],
                                          columns |-> <<>>])
                /\ relation.partiql = Some([path |-> <<number("0"), dot("a")>>])
        /\ (is_some(parsed) /\ source = "SELECT * FROM src[0].a[1].b AS a") =>
                /\ unwrap(parsed).ok
                /\ relation.name = src
                /\ relation.partiql =
                        Some([path |-> <<number("0"), dot("a"), number("1"), dot("b")>>])
        /\ (is_some(parsed) /\ source = "SELECT * FROM src.a.b") =>
                /\ unwrap(parsed).ok
                /\ relation.name = <<[value |-> "src", quote_style |-> None],
                                     [value |-> "a", quote_style |-> None],
                                     [value |-> "b", quote_style |-> None]>>
                /\ relation.partiql = None

C17_FourAccessorsAttachedToTable ==
    /\ source = "SELECT * FROM src[0].a[1].b AS a"
    /\ is_some(parsed) /\ unwrap(parsed).ok
    /\ unwrap(parsed).val.from[1].relation.name = <<Ident_new("src")>>
    /\ Len(unwrap(unwrap(parsed).val.from[1].relation.partiql).path) = 4

\* C21: a call of next_token whose next character is none of space, tab,
\* newline, a digit, + - * / returns Err(UnexpectedChar(ch, _)) naming
\* exactly that character and hands over no token, and no other call returns
\* an error; so 1.2.3 gives Literal("1") and then an error on the period.
C21_OtherCharacterIsUnexpected ==
    [][ pos < Len(input) =>
            LET ch == input[pos + 1]
                failed == is_some(ret') /\ ~unwrap(ret').ok
            IN  /\ ch \notin TokenChars =>
                        /\ failed
                        /\ unwrap(ret').err.variant = "UnexpectedChar"
                        /\ unwrap(ret').err.ch = ch
                        /\ spans' = spans
                /\ failed => ch \notin TokenChars
      ]_vars

\* 1.2.3 after two calls: Literal("1") was returned, then the error on '.'
C21_MalformedNumericRejectedAtPeriod ==
    /\ input = <<"1", ".", "2", ".", "3">>
    /\ spans = << [token |-> [variant |-> "Literal", s |-> "1"], start |-> 0, end |-> 1] >>
    /\ is_some(ret) /\ ~unwrap(ret).ok
    /\ unwrap(ret).err.variant = "UnexpectedChar"
    /\ unwrap(ret).err.ch = "."
    /\ calls = 2

\* C25: for every input, repeated calls of next_token reach a call that
\* returns Ok(None), after at most len(input) calls that returned a token or
\* an error; Ok(None) is returned only when no character remains; once it
\* has been returned, every later call returns it too.
C25_TokenizingTerminates ==
    /\ [](calls <= Len(input))
    /\ [](ret = Some(Ok(None)) => pos = Len(input))
    /\ [][ret = Some(Ok(None)) => ret' = Some(Ok(None))]_vars
    /\ <>(ret = Some(Ok(None)))

\* a source of MaxLen characters that took MaxLen calls before Ok(None)
C25_EndReachedAfterLenCalls ==
    /\ Len(input) = MaxLen
    /\ calls = Len(input)
    /\ ret = Some(Ok(None))
    /\ \E k \in 1..Len(input) : input[k] \notin TokenChars

\* C26: a call that returns UnexpectedChar has taken exactly one character
\* from the stream, the one it names, and puts nothing back: the next call
\* starts at the character after it, and can return a token.
C26_FailingCallConsumesOffender ==
    [][ /\ (is_some(ret') /\ ~unwrap(ret').ok) =>
                /\ pos' = pos + 1
                /\ input' = input
                /\ unwrap(ret').err.ch = input[pos']
        /\ (is_some(ret) /\ ~unwrap(ret).ok /\ Len(spans') > Len(spans)) =>
                /\ spans'[Len(spans')].start = pos
                /\ unwrap(ret).err.ch = input[pos]
                /\ ret' = Some(Ok(Some(spans'[Len(spans')].token)))
      ]_vars

\* ".1": the error on the period, then Literal("1") from the next call
C26_TokenAfterFailedCall ==
    /\ input = <<".", "1">>
    /\ calls = 2
    /\ spans = << [token |-> [variant |-> "Literal", s |-> "1"], start |-> 1, end |-> 2] >>
    /\ ret = Some(Ok(Some([variant |-> "Literal", s |-> "1"])))

\* C22: ConstraintCharacteristics writes the settings that are present in the
\* order deferrable (DEFERRABLE / NOT DEFERRABLE), initially (INITIALLY
\* IMMEDIATE / INITIALLY DEFERRED), enforced (ENFORCED / NOT ENFORCED), with
\* exactly one space between two of them and none before or after, and
\* writes nothing when none of the three is set.
C22_CharacteristicsInFixedOrder ==
    Formatted("ConstraintCharacteristics") =>
        LET c == unwrap(node).value
            text == unwrap(out).text
            deferrable == CASE c.deferrable = None -> <<>>
                            [] c.deferrable = Some(TRUE) -> <<"DEFERRABLE">>
                            [] c.deferrable = Some(FALSE) -> <<"NOT DEFERRABLE">>
            initially == CASE c.initially = None -> <<>>
                           [] c.initially = Some("Immediate") -> <<"INITIALLY IMMEDIATE">>
                           [] c.initially = Some("Deferred") -> <<"INITIALLY DEFERRED">>
            enforced == CASE c.enforced = None -> <<>>
                          [] c.enforced = Some(TRUE) -> <<"ENFORCED">>
                          [] c.enforced = Some(FALSE) -> <<"NOT ENFORCED">>
            present == deferrable \o initially \o enforced
        IN  /\ ~unwrap(out).panicked
            /\ present = <<>> <=> text = ""
            /\ Len(present) = 1 => text = present[1]
            /\ Len(present) = 2 => text = present[1] \o " " \o present[2]
            /\ Len(present) = 3 => text = present[1] \o " " \o present[2] \o " " \o present[3]
            /\ ~StartsWith(text, " ")
            /\ ~EndsWith(text, " ")
            /\ ~Contains(text, "  ")

\* all three settings present, each in its negative or second form
C22_ThreeSettingsRendered ==
    /\ Formatted("ConstraintCharacteristics")
    /\ unwrap(node).value = [deferrable |-> Some(FALSE), initially |-> Some("Deferred"),
                             enforced |-> Some(FALSE)]
    /\ unwrap(out).text = "NOT DEFERRABLE INITIALLY DEFERRED NOT ENFORCED"

\* C23: in a UNIQUE and in a FULLTEXT / SPATIAL table constraint,
\* index_type_display None / Key / Index is written as nothing / " KEY" /
\* " INDEX" directly after UNIQUE[ NULLS [NOT] DISTINCT], FULLTEXT or
\* SPATIAL: the separating space is written exactly when a keyword is.
\* Formatted without right alignment, KeyOrIndexDisplay writes the bare
\* keyword, or nothing, with no space ahead of it.
C23_KeyOrIndexKeywordSpacing ==
    LET keyword(k) == CASE k = "None" -> "" [] k = "Key" -> "KEY" [] k = "Index" -> "INDEX"
        text == unwrap(out).text
        c == unwrap(node).value
        head == IF c.variant = "Unique"
                THEN (IF is_some(c.name)
                      THEN "CONSTRAINT " \o IdentDisplay(unwrap(c.name)) \o " " ELSE "")
                     \o "UNIQUE"
                     \o (CASE c.nulls_distinct = "None" -> ""
                           [] c.nulls_distinct = "Distinct" -> " NULLS DISTINCT"
                           [] c.nulls_distinct = "NotDistinct" -> " NULLS NOT DISTINCT")
                ELSE IF c.fulltext THEN "FULLTEXT" ELSE "SPATIAL"
        spaced == IF c.index_type_display = "None" THEN ""
                  ELSE " " \o keyword(c.index_type_display)
    IN  /\ (Formatted("TableConstraint") /\ c.variant \in {"Unique", "FulltextOrSpatial"}) =>
                /\ StartsWith(text, head \o spaced \o " ")
                /\ ~StartsWith(text, head \o spaced \o "  ")
                /\ c.index_type_display = "None" =>
                        /\ ~StartsWith(text, head \o " KEY")
                        /\ ~StartsWith(text, head \o " INDEX")
        /\ Formatted("KeyOrIndexDisplay") =>
                text = (IF c.right_align /\ c.display # "None" THEN " " ELSE "")
                       \o keyword(c.display)

\* a UNIQUE constraint with NULLS NOT DISTINCT and the INDEX keyword
C23_UniqueNullsNotDistinctIndex ==
    /\ Formatted("TableConstraint")
    /\ unwrap(node).value.variant = "Unique"
    /\ unwrap(node).value.name = None
    /\ unwrap(node).value.index_name = None
    /\ unwrap(node).value.index_type = None
    /\ StartsWith(unwrap(out).text, "UNIQUE NULLS NOT DISTINCT INDEX (a)")

\* C24: CreateTableBuilder::new(name) gives a builder that holds the given
\* name, with every boolean flag false, every optional field None, columns
\* and constraints empty, hive_distribution NONE and table_options None; so
\* a fresh builder has no schema source and validate_schema_info() is false
\* on it, and stays false until a setter call leaves exactly one of columns /
\* query / like / clone populated.  The first conjunct speaks of the state
\* new() leaves, the first of every behaviour.
C24_FreshBuilderIsEmpty ==
    /\ LET flags == {"or_replace", "temporary", "external", "if_not_exists", "transient",
                      "volatile", "iceberg", "without_rowid", "strict", "copy_grants"}
            vectors == {"columns", "constraints"}
            optional == (DOMAIN builder)
                            \ (flags \cup vectors
                               \cup {"name", "hive_distribution", "table_options"})
       IN  /\ builder.name \in TableNames
           /\ Cardinality(DOMAIN builder) = 44
           /\ \A f \in flags : builder[f] = FALSE
           /\ \A f \in vectors : builder[f] = <<>>
           /\ \A f \in optional : builder[f] = None
           /\ builder.hive_distribution = HiveDistributionStyle_NONE
           /\ builder.table_options = CreateTableOptions_None
           /\ \A n \in TableNames \cup {OtherTable} :
                   new(n) = [builder EXCEPT !.name = n]
           /\ PopulatedSources(builder) = {}
           /\ ~validate_schema_info(builder)
    /\ [][ (~validate_schema_info(builder) /\ validate_schema_info(builder')) =>
                /\ pc = "setting"
                /\ Cardinality(PopulatedSources(builder')) = 1
                /\ PopulatedSources(builder') # PopulatedSources(builder)
         ]_vars
    /\ [](PopulatedSources(builder) = {} => ~validate_schema_info(builder))

\* the builder as new("table_name") left it, before any setter call
C24_FreshBuilderOfTableName ==
    /\ pc = "setting"
    /\ builder = new(<<Ident_new("table_name")>>)
    /\ builder.name = <<Ident_new("table_name")>>
    /\ PopulatedSources(builder) = {}
    /\ ~validate_schema_info(builder)
    /\ stmt = None

\* what a rendering holds after its first "AS IDENTITY"
AfterAsIdentity(text) ==
    LET at == CHOOSE i \in 1..Len(text) :
                    /\ SubSeq(text, i, i + 10) = "AS IDENTITY"
                    /\ \A j \in 1..(i - 1) : SubSeq(text, j, j + 10) # "AS IDENTITY"
    IN  SubSeq(text, at + 11, Len(text))

\* C27: for the same sequence_options, AlterColumnOperation::AddGenerated and
\* ColumnOption::Generated (generation_expr None) write the same text after
\* AS IDENTITY: nothing for None and the same parenthesised form for
\* Some(list), Some of the empty list included.
C27_IdentitySuffixesAgree ==
    (Formatted("AlterColumnOperation") /\ unwrap(node).value.variant = "AddGenerated") =>
        LET operation == unwrap(node).value
            option == [variant |-> "Generated",
                       generated_as |-> IF operation.generated_as = Some("ByDefault")
                                        THEN "ByDefault" ELSE "Always",
                       sequence_options |-> operation.sequence_options,
                       generation_expr |-> None,
                       generation_expr_mode |-> None,
                       generated_keyword |-> TRUE]
            column == ColumnOption_fmt(option)
        IN  /\ ~column.panicked
            /\ AfterAsIdentity(unwrap(out).text) = AfterAsIdentity(column.text)
            /\ operation.sequence_options = None => AfterAsIdentity(unwrap(out).text) = ""

\* where sub first occurs in s (0 when it does not), and how often it occurs
IndexOf(s, sub) ==
    LET at == {i \in 1..(Len(s) - Len(sub) + 1) : SubSeq(s, i, i + Len(sub) - 1) = sub}
    IN  IF at = {} THEN 0 ELSE CHOOSE i \in at : \A j \in at : i <= j
Occurrences(s, sub) ==
    Cardinality({i \in 1..(Len(s) - Len(sub) + 1) : SubSeq(s, i, i + Len(sub) - 1) = sub})

\* C28: CreateFunction writes its body exactly once when function_body is
\* Some and not at all when it is None, at a place fixed by the kind of
\* body: AsBeforeOptions (AS), Return (RETURN), AsReturnExpr and
\* AsReturnSelect (AS RETURN) come after the RETURNS, LANGUAGE, behaviour and
\* REMOTE WITH CONNECTION clauses and before USING and OPTIONS(...);
\* AsAfterOptions and AsBeginEnd (AS) come after OPTIONS(...), as the last
\* clause.
C28_FunctionBodyOnceAtItsPlace ==
    Formatted("CreateFunction") =>
        LET function == unwrap(node).value
            text == unwrap(out).text
            kind == unwrap(function.function_body).variant
            written == unwrap(function.function_body).body.text
            keyword == CASE kind \in {"AsBeforeOptions", "AsAfterOptions", "AsBeginEnd"} -> " AS "
                         [] kind = "Return" -> " RETURN "
                         [] kind \in {"AsReturnExpr", "AsReturnSelect"} -> " AS RETURN "
            place == IndexOf(text, keyword \o written)
            before == {" RETURNS ", " DETERMINISTIC", " LANGUAGE ", " IMMUTABLE", " STRICT",
                       " PARALLEL SAFE", " REMOTE WITH CONNECTION "}
            after == {" USING JAR ", " OPTIONS("}
        IN  IF function.function_body = None
            THEN /\ ~Contains(text, " AS ")
                 /\ ~Contains(text, " RETURN ")
                 /\ \A b \in {"x + 1", "SELECT 1", "BEGIN SELECT 2; END"} : ~Contains(text, b)
            ELSE /\ Occurrences(text, written) = 1
                 /\ Occurrences(text, " AS ") + Occurrences(text, " RETURN ")
                        = (IF kind \in {"AsReturnExpr", "AsReturnSelect"} THEN 2 ELSE 1)
                 /\ place > 0
                 /\ \A clause \in before : IndexOf(text, clause) < place
                 /\ is_some(function.return_type) => IndexOf(text, " RETURNS ") > 0
                 /\ is_some(function.remote_connection) =>
                        IndexOf(text, " REMOTE WITH CONNECTION ") > 0
                 /\ is_some(function.using) => IndexOf(text, " USING JAR ") > 0
                 /\ is_some(function.options) => IndexOf(text, " OPTIONS(") > 0
                 /\ kind \in {"AsBeforeOptions", "Return", "AsReturnExpr", "AsReturnSelect"} =>
                        \A clause \in after :
                            IndexOf(text, clause) = 0 \/ place < IndexOf(text, clause)
                 /\ kind \in {"AsAfterOptions", "AsBeginEnd"} =>
                        /\ \A clause \in after : IndexOf(text, clause) < place
                        /\ EndsWith(text, " AS " \o written)

\* an AsAfterOptions body behind USING and OPTIONS(...), every clause present
C28_BodyAfterOptionsWritten ==
    /\ Formatted("CreateFunction")
    /\ unwrap(node).value.function_body
            = Some([variant |-> "AsAfterOptions", body |-> [text |-> "x + 1"]])
    /\ is_some(unwrap(node).value.using)
    /\ is_some(unwrap(node).value.remote_connection)
    /\ EndsWith(unwrap(out).text,
                " REMOTE WITH CONNECTION s.t USING JAR 'f.jar' OPTIONS(a = 1) AS x + 1")


\* the boolean flags and optional fields of the AlterTableOperation variants
FlagAndOptionalFields ==
    {"if_exists", "if_not_exists", "not_valid", "column_keyword", "has_column_keyword",
     "equals", "drop_behavior", "partition", "with_name", "column_position"}

\* the flags and optional fields of one operation: the partition of FREEZE and
\* UNFREEZE is a required Partition, the partition of MATERIALIZE PROJECTION
\* and CLEAR PROJECTION is an Option<Ident>
FlagsOf(operation) ==
    IF operation.variant \in {"FreezePartition", "UnfreezePartition"}
    THEN (DOMAIN operation \cap FlagAndOptionalFields) \ {"partition"}
    ELSE DOMAIN operation \cap FlagAndOptionalFields

\* the fields in which two operations of one variant differ
DifferingFields(a, b) == {f \in DOMAIN a : a[f] # b[f]}

\* C29: every boolean flag and optional field of an AlterTableOperation is
\* reflected in its rendering: an operation of the same variant that differs
\* from the formatted one only in one of if_exists, if_not_exists, not_valid,
\* column_keyword, has_column_keyword, equals, drop_behavior, partition,
\* with_name or column_position renders to a different text.
C29_FlagsAndOptionalFieldsReflected ==
    Formatted("AlterTableOperation") =>
        LET operation == unwrap(node).value
        IN  \A other \in AlterTableOperations :
                ( /\ other.variant = operation.variant
                  /\ Cardinality(DifferingFields(operation, other)) = 1
                  /\ DifferingFields(operation, other) \subseteq FlagsOf(operation) )
                => AlterTableOperation_fmt(other) # unwrap(out).text

\* ADD COLUMN with both flags set and a position, next to the same operation
\* without the position
C29_AddColumnWithEveryFlag ==
    /\ Formatted("AlterTableOperation")
    /\ unwrap(node).value.variant = "AddColumn"
    /\ unwrap(node).value.column_keyword
    /\ unwrap(node).value.if_not_exists
    /\ unwrap(node).value.column_position = Some([text |-> "AFTER c"])
    /\ unwrap(out) = Returned("ADD COLUMN IF NOT EXISTS c1 INT AFTER c")
    /\ \E other \in AlterTableOperations :
            /\ other.variant = "AddColumn"
            /\ DifferingFields(unwrap(node).value, other) = {"column_position"}
            /\ AlterTableOperation_fmt(other) = "ADD COLUMN IF NOT EXISTS c1 INT"

====
